---- MODULE Spec2Model ----
(***************************************************************************)
(* Model of the prep-template store of qiita_db:                           *)
(*   PrepTemplate.create  (metadata_template/prep_template.py)             *)
(*   PrepTemplate.delete  (metadata_template/prep_template.py)             *)
(*   MetadataTemplate.exists / __len__ / add_filepath                      *)
(*                        (metadata_template/base_metadata_template.py)    *)
(*   PrepTemplate.investigation_type, create_qiime_mapping_file, and the   *)
(*   item methods of templates and samples                                 *)
(*   Strain.create / Strain.exists  (strain.py)                            *)
(*   SampleTemplateAdder.run  (commands/sample_template_adder.py)          *)
(*   StudyPreprocessor and the functions of its job graph                  *)
(*                        (qiita_ware/processing_pipeline.py)              *)
(* Every statement a caller sends to the relational store with             *)
(* conn_handler.execute* is one step of the model: it is committed on its  *)
(* own, and the state it leaves is visible to every other reader.  The     *)
(* statements handed to conn_handler.execute_queue run as one transaction. *)
(***************************************************************************)
EXTENDS Integers, Sequences, FiniteSets, TLC

VARIABLES
    db,          \* the relational store: one field per table or sequence
    fs,          \* files on the "templates" mount point
    pc,          \* per caller: the statement it executes next
    call,        \* per caller: the operation it runs and its arguments
    queues,      \* per caller: the queues of its SQLConnectionHandler
    result,      \* per caller: what its last operation returned or raised
    log,         \* the records LogEntry.create has written
    pipeline     \* the preprocessing runs started, and the run in flight

vars == <<db, fs, pc, call, queues, result, log, pipeline>>

---------------------------------------------------------------------------
(* Bounds of the model *)

\* prep_template_id values the store's sequence hands out
MaxPrepId == 1
\* preprocessing runs started over the life of the store
MaxRuns == 2
\* rows of an input template
MaxRows == 2
\* rows of qiita.filepath beyond which no method call adds another
MaxFilepaths == 5
\* rows of qiita.strain beyond which no Strain.create is started
MaxStrains == 2

---------------------------------------------------------------------------
(* Values *)

None == "None"

\* Sample names are sequences of characters: "1.A" is <<"1", ".", "A">>.
letters == {"A", "B", "C", "a", "b", "c"}
digits == {"0", "1", "2", "3", "4", "5", "6", "7", "8", "9"}

\* prep_template.py 96-97: the study and the raw data create() is given
study == [id |-> <<"1">>]
raw_data == [id |-> <<"1">>]

\* metadata_template/constants.py
TARGET_GENE_DATA_TYPES == {"16S", "18S", "ITS"}
REQUIRED_TARGET_GENE_COLS ==
    {"barcodesequence", "linkerprimersequence", "run_prefix",
     "library_construction_protocol", "experiment_design_description",
     "platform"}
RENAME_COLS_DICT ==
    [barcode |-> "barcodesequence", primer |-> "linkerprimersequence"]

\* The columns of qiita.common_prep_info (get_table_cols(cls._table)).
common_prep_info_cols == <<"prep_template_id", "sample_id", "center_name">>

\* cls.translate_cols_dict: the class attribute is declared outside the
\* files at hand; no column of the model is translated.
translate_cols_dict == {}

\* Ontology('ENA'): terms + user_defined_terms
ontology_terms == {"Metagenomics", "Amplicon"}

\* str.lower() on the column headers the inputs use
ToLower(c) ==
    CASE c = "Barcode" -> "barcode"
      [] c = "PH" -> "ph"
      [] c = "Ph" -> "ph"
      [] OTHER -> c

Range(s) == {s[i] : i \in DOMAIN s}

---------------------------------------------------------------------------
(* Inputs *)

\* sample names an input template may use
InputNames ==
    << <<"A">>, <<"B">>, <<"C">>, <<"1", ".", "A">>, <<"A", "#">> >>

\* The index of an input template: the names at the chosen positions.
IndexOf(S) == SelectSeq(InputNames, LAMBDA n : \E i \in S : InputNames[i] = n)

InputIndexes ==
    {IndexOf(S) : S \in {T \in SUBSET (1..Len(InputNames)) :
                           T # {} /\ Cardinality(T) <= MaxRows}}

TargetGeneHeaders ==
    <<"barcodesequence", "linkerprimersequence", "run_prefix",
      "library_construction_protocol", "experiment_design_description",
      "platform">>

HistoricalHeaders ==
    <<"Barcode", "primer", "run_prefix",
      "library_construction_protocol", "experiment_design_description",
      "platform">>

InputColumns ==
    { <<"center_name">> \o TargetGeneHeaders \o <<"PH">>,
      <<"center_name">> \o HistoricalHeaders,
      <<"center_name">> \o Tail(TargetGeneHeaders),
      TargetGeneHeaders \o <<"PH">>,
      <<"center_name", "PH", "Ph">>,
      <<"center_name">> }

InputDataTypes == {"16S", "Metagenomic"}

InputInvestigationTypes == {None, "Metagenomics", "Other"}

---------------------------------------------------------------------------
(* PrepTemplate.create: the checks that come before the first write *)

\* get_invalid_sample_names: the names with a character outside
\* letters, digits and the period
get_invalid_sample_names(index) ==
    {n \in Range(index) : \E i \in DOMAIN n : n[i] \notin letters \cup digits \cup {"."}}

HasPrefix(n, pre) ==
    Len(n) >= Len(pre) /\ SubSeq(n, 1, Len(pre)) = pre

\* prefix_sample_names_with_id: "<study_id>." goes in front of every name
\* that does not carry it already
prefix_sample_names_with_id(index, study_id) ==
    LET pre == study_id \o <<".">>
    IN  [i \in DOMAIN index |->
            IF HasPrefix(index[i], pre) THEN index[i] ELSE pre \o index[i]]

\* Mutant: the index of the copy is left as the caller gave it.
md_template_index_AsGiven(index) == index

\* prep_template.py 135-140: the index of the copy of md_template once
\* prefix_sample_names_with_id(md_template, study.id) has run on it
md_template_index(index) == prefix_sample_names_with_id(index, study.id)

\* prep_template.py 143: md_template.columns = [c.lower() for c in ...]
LowerColumns(columns) == [i \in DOMAIN columns |-> ToLower(columns[i])]

\* prep_template.py 146: len(set(columns)) != len(columns)
HasDuplicateHeader(columns) == Cardinality(Range(columns)) # Len(columns)

\* DataFrame.rename(columns=RENAME_COLS_DICT)
RenameColumns(columns) ==
    [i \in DOMAIN columns |->
        IF columns[i] \in DOMAIN RENAME_COLS_DICT
        THEN RENAME_COLS_DICT[columns[i]] ELSE columns[i]]

\* Mutant: the required columns are looked for under the names given.
check_template_special_columns_NoRename(columns, data_type) ==
    IF data_type \in TARGET_GENE_DATA_TYPES
    THEN [columns |-> columns,
          missing |-> REQUIRED_TARGET_GENE_COLS \ Range(columns)]
    ELSE [columns |-> columns, missing |-> {}]

\* PrepTemplate._check_template_special_columns: the columns after the
\* in-place rename, and the required target-gene columns still missing
check_template_special_columns(columns, data_type) ==
    IF data_type \in TARGET_GENE_DATA_TYPES
    THEN [columns |-> RenameColumns(columns),
          missing |-> REQUIRED_TARGET_GENE_COLS \ Range(RenameColumns(columns))]
    ELSE [columns |-> columns, missing |-> {}]

\* prep_template.py 173-177: db_cols without sample_id and the id column
db_cols == Range(common_prep_info_cols) \ {"sample_id", "prep_template_id"}

\* Mutant: the required columns of common_prep_info are not looked at.
MissingColumns_SpecialOnly(columns, data_type) ==
    check_template_special_columns(columns, data_type).missing

\* prep_template.py 183-185
MissingColumns(columns, data_type) ==
    LET special == check_template_special_columns(columns, data_type)
        remaining == db_cols \ Range(special.columns)
    IN  (special.missing \cup remaining) \ translate_cols_dict

\* PrepTemplate.validate_investigation_type
valid_investigation_type(investigation_type) ==
    investigation_type \in ontology_terms

\* prep_template.py 152
queue_name == <<"CREATE_PREP_TEMPLATE", raw_data.id>>

---------------------------------------------------------------------------
(* The statements create() queues, and the store's execution of them *)

\* prep_template.py 213: the headers that are not required columns
DynamicHeaders(columns) == Range(columns) \ db_cols

Stmt(sql, table, id, samples, columns) ==
    [sql |-> sql, table |-> table, id |-> id,
     samples |-> samples, columns |-> columns]

\* Mutant: the rows of the dynamic table are never queued.
BuildQueue_NoDynamicRows(prep_id, index, columns) ==
    << Stmt("INSERT", "common_prep_info", prep_id, index, db_cols),
       Stmt("INSERT", "prep_columns", prep_id, <<>>, DynamicHeaders(columns)),
       Stmt("CREATE TABLE", "prep_", prep_id, <<>>, DynamicHeaders(columns)) >>

\* Mutant: the registry gets every header, the required columns included.
BuildQueue_RegistryAllHeaders(prep_id, index, columns) ==
    << Stmt("INSERT", "common_prep_info", prep_id, index, db_cols),
       Stmt("INSERT", "prep_columns", prep_id, <<>>, Range(columns)),
       Stmt("CREATE TABLE", "prep_", prep_id, <<>>, DynamicHeaders(columns)),
       Stmt("INSERT", "prep_", prep_id, index, DynamicHeaders(columns)) >>

\* Mutant: the rows of the dynamic table are queued before its CREATE TABLE.
BuildQueue_RowsBeforeTable(prep_id, index, columns) ==
    << Stmt("INSERT", "common_prep_info", prep_id, index, db_cols),
       Stmt("INSERT", "prep_columns", prep_id, <<>>, DynamicHeaders(columns)),
       Stmt("INSERT", "prep_", prep_id, index, DynamicHeaders(columns)),
       Stmt("CREATE TABLE", "prep_", prep_id, <<>>, DynamicHeaders(columns)) >>

\* prep_template.py 199-245: the four add_to_queue calls, in order
BuildQueue(prep_id, index, columns) ==
    << Stmt("INSERT", "common_prep_info", prep_id, index, db_cols),
       Stmt("INSERT", "prep_columns", prep_id, <<>>, DynamicHeaders(columns)),
       Stmt("CREATE TABLE", "prep_", prep_id, <<>>, DynamicHeaders(columns)),
       Stmt("INSERT", "prep_", prep_id, index, DynamicHeaders(columns)) >>

HasDuplicates(s) == Cardinality(Range(s)) # Len(s)

\* Whether the store refuses statement s in state d: a sample that is not in
\* the study's sample template, a repeated key, a table that exists already
\* or does not exist, an empty column list.
Refused(d, s) ==
    CASE s.table = "common_prep_info" ->
            \/ Range(s.samples) \ d.required_sample_info # {}
            \/ HasDuplicates(s.samples)
            \/ \E n \in Range(s.samples) : <<s.id, n>> \in d.common_prep_info
      [] s.table = "prep_columns" ->
            \E c \in s.columns : <<s.id, c>> \in d.prep_columns
      [] s.table = "prep_" /\ s.sql = "CREATE TABLE" ->
            s.id \in DOMAIN d.tables \/ s.columns = {}
      [] s.table = "prep_" /\ s.sql = "INSERT" ->
            \/ s.id \notin DOMAIN d.tables
            \/ s.columns = {}
            \/ s.columns \ d.tables[s.id].columns # {}

\* The store after statement s
Apply(d, s) ==
    CASE s.table = "common_prep_info" ->
            [d EXCEPT !.common_prep_info =
                @ \cup {<<s.id, n>> : n \in Range(s.samples)}]
      [] s.table = "prep_columns" ->
            [d EXCEPT !.prep_columns = @ \cup {<<s.id, c>> : c \in s.columns}]
      [] s.table = "prep_" /\ s.sql = "CREATE TABLE" ->
            [d EXCEPT !.tables =
                (s.id :> [columns |-> s.columns, rows |-> {}]) @@ @]
      [] s.table = "prep_" /\ s.sql = "INSERT" ->
            [d EXCEPT !.tables[s.id].rows = @ \cup Range(s.samples)]

RECURSIVE RunStatements(_, _, _, _)
\* The statements of q from position k on, run on the working copy d;
\* statement failAt fails for a reason of its own (0: none does).
RunStatements(d, q, k, failAt) ==
    IF k > Len(q) THEN [ok |-> TRUE, db |-> d, failed |-> 0]
    ELSE IF k = failAt \/ Refused(d, q[k])
         THEN [ok |-> FALSE, db |-> d, failed |-> k]
         ELSE RunStatements(Apply(d, q[k]), q, k + 1, failAt)

\* SQLConnectionHandler.execute_queue: all the statements in one
\* transaction; the first failure rolls back to the store as it was and is
\* raised, naming the statement that failed.
execute_queue(d, q, failAt) ==
    LET run == RunStatements(d, q, 1, failAt)
    IN  IF run.ok THEN run ELSE [run EXCEPT !.db = d]

---------------------------------------------------------------------------
(* Reads of the store *)

\* Mutant: the template is looked up by its prep_template row.
exists_ByRootRow(d, id) == id \in DOMAIN d.prep_template

\* util.exists_table on the dynamic table, as MetadataTemplate.exists does
exists(d, id) == id \in DOMAIN d.tables

\* MetadataTemplate._get_sample_ids
get_sample_ids(d, id) == {r[2] : r \in {x \in d.common_prep_info : x[1] = id}}

\* MetadataTemplate.__len__
len(d, id) == Cardinality(get_sample_ids(d, id))

\* the column_name values of the prep_columns rows of a template
registry_columns(d, id) == {r[2] : r \in {x \in d.prep_columns : x[1] = id}}

\* Mutant: the link table is asked for the preprocessed data id.
preprocessed_data_exists_WrongColumn(d, id) ==
    \E r \in d.prep_template_preprocessed_data : r[2] = id + 1

\* PrepTemplate.delete, 364-366: SELECT EXISTS(... prep_template_preprocessed_data)
preprocessed_data_exists(d, id) ==
    \E r \in d.prep_template_preprocessed_data : r[1] = id

\* Mutant: the rows come back in the order of their ids.
RECURSIVE SortAsc(_)
SortAsc(S) ==
    IF S = {} THEN <<>>
    ELSE LET m == CHOOSE x \in S : \A y \in S : x <= y
         IN  <<m>> \o SortAsc(S \ {m})

\* MetadataTemplate.get_filepaths: ORDER BY filepath_id DESC
RECURSIVE SortDesc(_)
SortDesc(S) ==
    IF S = {} THEN <<>>
    ELSE LET m == CHOOSE x \in S : \A y \in S : y <= x
         IN  <<m>> \o SortDesc(S \ {m})

get_filepaths(d, link_table, id) ==
    LET ids == SortDesc({r[2] : r \in {x \in link_table : x[1] = id}})
    IN  [i \in DOMAIN ids |-> <<ids[i], d.filepath[ids[i]]>>]

---------------------------------------------------------------------------
(* Callers *)

Callers == {"c1"}

NoCall ==
    [op |-> "none", id |-> 0, index |-> <<>>, columns |-> {}, rows |-> 0,
     error |-> 0, value |-> None]

NoResult ==
    [kind |-> "none", samples |-> {}, columns |-> {}, statement |-> 0,
     terms |-> {}, value |-> None]

Returned == [NoResult EXCEPT !.kind = "ok"]

Raised(kind, samples, columns) ==
    [kind |-> kind, samples |-> samples, columns |-> columns, statement |-> 0,
     terms |-> {}, value |-> None]

\* prep_template.py 303-306: the error of validate_investigation_type, its
\* message lists the terms to choose from
InvalidInvestigationTypeError ==
    [Raised("InvalidInvestigationTypeError", {}, {}) EXCEPT
        !.terms = ontology_terms]

\* the error execute_queue raised on its failing statement
ExecutionError(statement) ==
    [Raised("ExecutionError", {}, {}) EXCEPT !.statement = statement]

\* SQLConnectionHandler.create_queue: a new, empty queue under the name, in
\* the handler whose queues are h
create_queue(h, name) == (name :> <<>>) @@ h

\* Mutant: the queues of the handler outlive the call.
handler_after_call_Kept(h) == h

\* prep_template.py 150-151: conn_handler = SQLConnectionHandler() is a local
\* of the call; when the call returns or raises, the handler and the queues
\* h it holds are gone
handler_after_call(h) == <<>>

\* The call of p ends with the queues h in its handler: its locals die with
\* it, the outcome is what is left (the number of rows handed in is kept
\* beside the template returned).
EndCallWith(p, c, r, h) ==
    /\ pc' = [pc EXCEPT ![p] = "done"]
    /\ call' = [call EXCEPT ![p] =
                  [c EXCEPT !.index = <<>>, !.columns = {}, !.error = 0,
                            !.rows = IF r = Returned THEN @ ELSE 0]]
    /\ queues' = [queues EXCEPT ![p] = handler_after_call(h)]
    /\ result' = [result EXCEPT ![p] = r]

EndCall(p, c, r) == EndCallWith(p, c, r, queues[p])

Finish(p, r) == EndCall(p, call[p], r)

Goto(p, label) == pc' = [pc EXCEPT ![p] = label]

\* the file of the study's sample template, written when it was created
SampleTemplateFile ==
    [index |-> { <<"1", ".", "A">>, <<"1", ".", "B">> },
     columns |-> {"description", "ph"}]

\* a candidate prep template file under the uploads mount point: it names a
\* sample the sample template file does not have
UploadedFile ==
    [index |-> { <<"1", ".", "A">>, <<"1", ".", "C">> },
     columns |-> {"barcodesequence", "linkerprimersequence", "ph"}]

\* no preprocessing run has been invoked
NoRun ==
    [raw_data |-> 0, filetype |-> None, pc |-> "none",
     nodes |-> {}, edges |-> {}, requires_deps |-> {},
     executed |-> <<>>, failed_node |-> None, msg |-> None,
     created |-> {}, dirpaths_to_remove |-> {}, files |-> {}, callbacks |-> 0]

\* the store before any caller has acted: the study of the model has its
\* sample template, and there is no prep template and no strain
InitialStore ==
    [prep_template |-> <<>>,
     prep_template_id_seq |-> 1,
     common_prep_info |-> {},
     prep_columns |-> {},
     tables |-> <<>>,
     filepath |-> << <<"sample", 1>> >>,
     prep_template_filepath |-> {},
     sample_template_filepath |-> {<<study.id, 1>>},
     prep_template_preprocessed_data |-> {},
     required_sample_info |-> SampleTemplateFile.index,
     study_sample_columns |->
         {<<study.id, c>> : c \in SampleTemplateFile.columns},
     sample_tables |->
         (study.id :> [columns |-> SampleTemplateFile.columns,
                       rows |-> SampleTemplateFile.index]),
     strain |-> <<>>]

Init ==
    /\ db = InitialStore
    /\ fs = (<<"sample", 1>> :> SampleTemplateFile)
                @@ (<<"upload", 1>> :> UploadedFile)
    /\ pc = [p \in Callers |-> "idle"]
    /\ call = [p \in Callers |-> NoCall]
    /\ queues = [p \in Callers |-> <<>>]
    /\ result = [p \in Callers |-> NoResult]
    /\ log = <<>>
    /\ pipeline = [started |-> 0, run |-> NoRun]

---------------------------------------------------------------------------
(* PrepTemplate.create *)

\* find_duplicates
find_duplicates(columns) ==
    {c \in Range(columns) : Cardinality({i \in DOMAIN columns : columns[i] = c}) > 1}

\* Mutant: the id is drawn from the sequence, the row is not inserted.
InsertPrepTemplate_NoRow(d, investigation_type) ==
    [d EXCEPT !.prep_template_id_seq = @ + 1]

\* prep_template.py 193-197: INSERT INTO qiita.prep_template ... RETURNING
\* prep_template_id, executed on its own, outside the queue
InsertPrepTemplate(d, investigation_type) ==
    [d EXCEPT !.prep_template =
                  (d.prep_template_id_seq :>
                      [investigation_type |-> investigation_type,
                       preprocessing_status |-> "not_preprocessed"]) @@ @,
              !.prep_template_id_seq = @ + 1]

\* Mutant: the sample ids are not looked at.
create_checks_NoSampleIdCheck(index, columns, data_type, investigation_type) ==
    LET lowered == LowerColumns(columns)
        missing == MissingColumns(lowered, data_type)
    IN  IF investigation_type # None
           /\ ~valid_investigation_type(investigation_type)
        THEN InvalidInvestigationTypeError
        ELSE IF HasDuplicateHeader(lowered)
        THEN Raised("DuplicateHeaderError", {}, find_duplicates(lowered))
        ELSE IF missing # {}
        THEN Raised("MissingColumnsError", {}, missing)
        ELSE NoResult

\* prep_template.py 123-188: the checks create() makes before it writes, in
\* the order it makes them; the error of the first that fails, or NoResult
create_checks(index, columns, data_type, investigation_type) ==
    LET invalid_ids == get_invalid_sample_names(index)
        lowered == LowerColumns(columns)
        missing == MissingColumns(lowered, data_type)
    IN  IF investigation_type # None
           /\ ~valid_investigation_type(investigation_type)
        THEN InvalidInvestigationTypeError
        ELSE IF invalid_ids # {}
        THEN Raised("InvalidSampleIdError", invalid_ids, {})
        ELSE IF HasDuplicateHeader(lowered)
        THEN Raised("DuplicateHeaderError", {}, find_duplicates(lowered))
        ELSE IF missing # {}
        THEN Raised("MissingColumnsError", {}, missing)
        ELSE NoResult

\* prep_template.py 123-245: the checks, the queue, the root row, the queued
\* statements.  The queue is created (152-153) after the headers have been
\* checked for duplicates and before the required columns are looked for:
\* create_queue raises on a name the handler has already.
create(p, index, columns, data_type, investigation_type) ==
    /\ pc[p] \in {"idle", "done"}
    /\ UNCHANGED <<fs, log, pipeline>>
    /\ LET error == create_checks(index, columns, data_type, investigation_type)
           md_index == md_template_index(index)
           md_columns == check_template_special_columns(
                             LowerColumns(columns), data_type).columns
           prep_id == db.prep_template_id_seq
           this == [NoCall EXCEPT !.op = "create", !.rows = Len(index)]
       IN  IF error # NoResult /\ error.kind # "MissingColumnsError"
           THEN /\ EndCall(p, this, error)
                /\ UNCHANGED db
           ELSE IF queue_name \in DOMAIN queues[p]
           THEN /\ EndCall(p, this, Raised("QueueExistsError", {}, {}))
                /\ UNCHANGED db
           ELSE IF error # NoResult
           THEN /\ EndCallWith(p, this, error,
                               create_queue(queues[p], queue_name))
                /\ UNCHANGED db
           ELSE /\ db' = InsertPrepTemplate(db, investigation_type)
                /\ pc' = [pc EXCEPT ![p] = "execute_queue"]
                /\ call' = [call EXCEPT ![p] =
                              [this EXCEPT !.id = prep_id, !.index = md_index,
                                           !.columns = Range(md_columns)]]
                /\ queues' = [queues EXCEPT ![p] =
                                (queue_name :>
                                    BuildQueue(prep_id, md_index, md_columns))]
                /\ result' = [result EXCEPT ![p] = NoResult]

\* create(), called while the sequence of the store has an id within the
\* bound
CreateStart(p, index, columns, data_type, investigation_type) ==
    /\ db.prep_template_id_seq <= MaxPrepId
    /\ create(p, index, columns, data_type, investigation_type)

\* Mutant: create() goes on to its backup whatever execute_queue did.
ExecuteQueue_NoExcept(p) ==
    /\ pc[p] = "execute_queue"
    /\ \E failAt \in 0..Len(queues[p][queue_name]) :
        LET run == execute_queue(db, queues[p][queue_name], failAt)
        IN  /\ db' = run.db
            /\ pc' = [pc EXCEPT ![p] = "to_file"]
            /\ call' = [call EXCEPT ![p].error = run.failed]
    /\ queues' = [queues EXCEPT ![p] = <<>>]
    /\ UNCHANGED <<fs, result, log, pipeline>>

\* Mutant: the queue is looked up by its name among the queues of every
\* handler, and the first one found is executed and wiped.
ExecuteQueue_SharedName(p) ==
    /\ pc[p] = "execute_queue"
    /\ LET q == CHOOSE x \in DOMAIN queues : queue_name \in DOMAIN queues[x]
       IN  /\ \E failAt \in 0..Len(queues[q][queue_name]) :
                LET run == execute_queue(db, queues[q][queue_name], failAt)
                IN  /\ db' = run.db
                    /\ pc' = [pc EXCEPT ![p] =
                                 IF run.ok THEN "to_file" ELSE "cleanup"]
                    /\ call' = [call EXCEPT ![p].error = run.failed]
           /\ queues' = [queues EXCEPT ![q] = <<>>]
    /\ UNCHANGED <<fs, result, log, pipeline>>

\* prep_template.py 247-248: conn_handler.execute_queue(queue_name)
\* A statement may fail for a reason the model does not hold (a value of
\* the wrong type, a reserved word as a column name): any one of them.
ExecuteQueue(p) ==
    /\ pc[p] = "execute_queue"
    /\ \E failAt \in 0..Len(queues[p][queue_name]) :
        LET run == execute_queue(db, queues[p][queue_name], failAt)
        IN  /\ db' = run.db
            /\ pc' = [pc EXCEPT ![p] = IF run.ok THEN "to_file" ELSE "cleanup"]
            /\ call' = [call EXCEPT ![p].error = run.failed]
    /\ queues' = [queues EXCEPT ![p] = <<>>]
    /\ UNCHANGED <<fs, result, log, pipeline>>

\* Mutant: the compensating DELETE removes nothing.
DeletePrepTemplateRow_Nothing(d, id) == d

\* prep_template.py 250-253: DELETE FROM qiita.prep_template
DeletePrepTemplateRow(d, id) ==
    [d EXCEPT !.prep_template = [x \in DOMAIN @ \ {id} |-> @[x]]]

CleanupRoot(p) ==
    /\ pc[p] = "cleanup"
    /\ db' = DeletePrepTemplateRow(db, call[p].id)
    /\ Goto(p, "diagnose")
    /\ UNCHANGED <<fs, call, queues, result, log, pipeline>>

\* Mutant: the samples the study does know are reported.
unknown_samples_Known(d, index) == Range(index) \cap d.required_sample_info

\* prep_template.py 260-262
unknown_samples(d, index) == Range(index) \ d.required_sample_info

\* prep_template.py 255-269: the diagnostic query and the error raised
Diagnose(p) ==
    /\ pc[p] = "diagnose"
    /\ IF unknown_samples(db, call[p].index) # {}
       THEN Finish(p, Raised("OrphanSamplesError",
                             unknown_samples(db, call[p].index), {}))
       ELSE Finish(p, ExecutionError(call[p].error))
    /\ UNCHANGED <<db, fs, log, pipeline>>

\* prep_template.py 271-277: pt.to_file(fp), SELECT * FROM the dynamic table
ToFile(p) ==
    /\ pc[p] = "to_file"
    /\ IF exists(db, call[p].id)
       THEN /\ fs' = (<<"prep", call[p].id>> :>
                        [index |-> db.tables[call[p].id].rows,
                         columns |-> db.tables[call[p].id].columns]) @@ fs
            /\ Goto(p, "add_filepath")
            /\ UNCHANGED <<call, queues, result>>
       ELSE /\ Finish(p, Raised("StoreError", {}, {}))
            /\ UNCHANGED fs
    /\ UNCHANGED <<db, log, pipeline>>

\* The value every row of an input template has in a column, as the store
\* hands it back: its Python type and the text str() makes of it.
md_template_value(column) ==
    CASE column = "ph" -> [type |-> "float", text |-> "7.0"]
      [] column = "run_prefix" -> [type |-> "int", text |-> "1"]
      [] column = "platform" -> [type |-> "NoneType", text |-> "None"]
      [] OTHER -> [type |-> "str", text |-> "x"]

\* base_metadata_template.py 696: str(d[h]), the text of a value in the file
str(value) == value.text

\* base_metadata_template.py 687-698: the line to_file writes for every
\* sample of the file: its columns, sorted, and the text under each
file_values(file) == [h \in file.columns |-> str(md_template_value(h))]

\* load_template_to_dataframe: the value read back from a text of the file,
\* typed by what the text looks like
load_value(text) ==
    [type |-> CASE text \in {"1"} -> "int"
                [] text \in {"7.0"} -> "float"
                [] OTHER -> "str",
     text |-> text]

\* load_template_to_dataframe on a file of the templates mount point
load_template_to_dataframe(file) ==
    [index |-> file.index,
     columns |-> file.columns,
     values |-> [h \in file.columns |-> load_value(file_values(file)[h])]]

\* the columns of a committed template: the required columns of
\* common_prep_info (200-210) and the columns of its dynamic table (212-245)
template_columns(d, id) == db_cols \cup d.tables[id].columns

\* insert_filepaths: a new row of qiita.filepath, its id the next of the
\* sequence
insert_filepaths(d, path) == [d EXCEPT !.filepath = Append(@, path)]

\* MetadataTemplate.add_filepath, 745-752, for a prep template
add_filepath(d, id, path) ==
    [insert_filepaths(d, path) EXCEPT
        !.prep_template_filepath = @ \cup {<<id, Len(d.filepath) + 1>>}]

\* MetadataTemplate.add_filepath, 753-756: LogEntry.create('Runtime', ...)
LogRuntime(id) == [category |-> "Runtime", id |-> id]

\* prep_template.py 279-280: pt.add_filepath(fp)
AddFilepath(p) ==
    /\ pc[p] = "add_filepath"
    /\ IF call[p].id \in DOMAIN db.prep_template
       THEN /\ db' = add_filepath(db, call[p].id, <<"prep", call[p].id>>)
            /\ Goto(p, "qiime")
            /\ UNCHANGED <<call, queues, result, log>>
       ELSE /\ db' = insert_filepaths(db, <<"prep", call[p].id>>)
            /\ log' = Append(log, LogRuntime(call[p].id))
            /\ Finish(p, Raised("StoreError", {}, {}))
    /\ UNCHANGED <<fs, pipeline>>

\* create_qiime_mapping_file, 544-550
rename_cols ==
    [barcode |-> "BarcodeSequence", barcodesequence |-> "BarcodeSequence",
     primer |-> "LinkerPrimerSequence",
     linkerprimersequence |-> "LinkerPrimerSequence",
     description |-> "Description"]

\* create_qiime_mapping_file, 568-569: the columns of the joined, renamed
\* frame (a column the two files share keeps its name on the right side)
mapping_columns(pt, st) ==
    {IF c \in DOMAIN rename_cols THEN rename_cols[c] ELSE c :
        c \in pt.columns \cup st.columns}

\* Mutant: the mapping file is written before the sample ids are compared.
NotASubset_FileFirst(p, c, pt, st) ==
    /\ EndCall(p, c, Raised("NotASubsetError", pt.index \ st.index, {}))
    /\ fs' = (<<"qiime", c.id>> :> pt) @@ fs
    /\ UNCHANGED <<db, log>>

\* create_qiime_mapping_file, 562-566: the error names the sample ids of the
\* prep file that the sample file lacks; nothing has been written yet
NotASubset(p, c, pt, st) ==
    /\ EndCall(p, c, Raised("NotASubsetError", pt.index \ st.index, {}))
    /\ UNCHANGED <<db, fs, log>>

\* PrepTemplate.create_qiime_mapping_file, 552-594, of the template c.id on
\* the file prep_template_fp; the call c of p ends with it.  (The time stamp
\* in the name of the mapping file is left out.)
create_qiime_mapping_file(p, c, prep_template_fp) ==
    LET id == c.id
        st_fps == get_filepaths(db, db.sample_template_filepath, study.id)
        st == fs[st_fps[1][2]]
        pt == fs[prep_template_fp]
        cols == mapping_columns(pt, st)
    IN  IF st_fps = <<>>
        THEN /\ EndCall(p, c, Raised("IndexError", {}, {}))
             /\ UNCHANGED <<db, fs, log>>
        ELSE IF ~(pt.index \subseteq st.index)
        THEN NotASubset(p, c, pt, st)
        ELSE IF ~({"BarcodeSequence", "LinkerPrimerSequence", "Description"}
                     \subseteq cols)
        THEN /\ EndCall(p, c, Raised("ValueError", {}, {}))
             /\ UNCHANGED <<db, fs, log>>
        ELSE /\ fs' = (<<"qiime", id>> :> [index |-> pt.index, columns |-> cols])
                         @@ fs
             /\ IF id \in DOMAIN db.prep_template
                THEN /\ db' = add_filepath(db, id, <<"qiime", id>>)
                     /\ EndCall(p, c, Returned)
                     /\ UNCHANGED log
                ELSE /\ db' = insert_filepaths(db, <<"qiime", id>>)
                     /\ log' = Append(log, LogRuntime(id))
                     /\ EndCall(p, c, Raised("StoreError", {}, {}))

\* prep_template.py 283: pt.create_qiime_mapping_file(fp), on the backup
CreateQiimeMappingFile(p) ==
    /\ pc[p] = "qiime"
    /\ create_qiime_mapping_file(p, call[p], <<"prep", call[p].id>>)
    /\ UNCHANGED pipeline

---------------------------------------------------------------------------
(* PrepTemplate.delete *)

\* prep_template.py 358-362: cls.exists(id_)
DeleteStart(p, id) ==
    /\ pc[p] \in {"idle", "done"}
    /\ LET this == [NoCall EXCEPT !.op = "delete", !.id = id]
       IN  IF ~exists(db, id)
           THEN EndCall(p, this, Raised("UnknownTemplateError", {}, {}))
           ELSE /\ pc' = [pc EXCEPT ![p] = "del_check"]
                /\ call' = [call EXCEPT ![p] = this]
                /\ result' = [result EXCEPT ![p] = NoResult]
                /\ queues' = [queues EXCEPT ![p] = <<>>]
    /\ UNCHANGED <<db, fs, log, pipeline>>

\* prep_template.py 364-371
DeleteCheckPreprocessed(p) ==
    /\ pc[p] = "del_check"
    /\ IF preprocessed_data_exists(db, call[p].id)
       THEN Finish(p, Raised("StateConflictError", {}, {}))
       ELSE Goto(p, "del_filepaths") /\ UNCHANGED <<call, queues, result>>
    /\ UNCHANGED <<db, fs, log, pipeline>>

\* prep_template.py 373-376
DeleteFilepaths(p) ==
    /\ pc[p] = "del_filepaths"
    /\ db' = [db EXCEPT !.prep_template_filepath =
                            {r \in @ : r[1] # call[p].id}]
    /\ Goto(p, "del_drop")
    /\ UNCHANGED <<fs, call, queues, result, log, pipeline>>

\* Mutant: the DROP TABLE is left out.
DeleteDropTable_Skipped(p) ==
    /\ pc[p] = "del_drop"
    /\ Goto(p, "del_common")
    /\ UNCHANGED <<db, fs, call, queues, result, log, pipeline>>

\* prep_template.py 378-380: DROP TABLE fails on a table that is not there
DeleteDropTable(p) ==
    /\ pc[p] = "del_drop"
    /\ IF exists(db, call[p].id)
       THEN /\ db' = [db EXCEPT !.tables =
                                [x \in DOMAIN @ \ {call[p].id} |-> @[x]]]
            /\ Goto(p, "del_common")
            /\ UNCHANGED <<call, queues, result>>
       ELSE /\ Finish(p, Raised("StoreError", {}, {}))
            /\ UNCHANGED db
    /\ UNCHANGED <<fs, log, pipeline>>

\* Mutant: the registry rows are removed where the required rows should be.
DeleteCommonPrepInfo_Registry(p) ==
    /\ pc[p] = "del_common"
    /\ db' = [db EXCEPT !.prep_columns = {r \in @ : r[1] # call[p].id}]
    /\ Goto(p, "del_columns")
    /\ UNCHANGED <<fs, call, queues, result, log, pipeline>>

\* prep_template.py 382-386
DeleteCommonPrepInfo(p) ==
    /\ pc[p] = "del_common"
    /\ db' = [db EXCEPT !.common_prep_info = {r \in @ : r[1] # call[p].id}]
    /\ Goto(p, "del_columns")
    /\ UNCHANGED <<fs, call, queues, result, log, pipeline>>

\* prep_template.py 388-392
DeletePrepColumns(p) ==
    /\ pc[p] = "del_columns"
    /\ db' = [db EXCEPT !.prep_columns = {r \in @ : r[1] # call[p].id}]
    /\ Goto(p, "del_root")
    /\ UNCHANGED <<fs, call, queues, result, log, pipeline>>

\* The store refuses to delete a prep_template row that a row of
\* prep_template_preprocessed_data refers to.
Referenced(d, id) == \E r \in d.prep_template_preprocessed_data : r[1] = id

\* prep_template.py 394-397
DeleteRoot(p) ==
    /\ pc[p] = "del_root"
    /\ IF Referenced(db, call[p].id)
       THEN /\ Finish(p, Raised("StoreError", {}, {}))
            /\ UNCHANGED db
       ELSE /\ db' = DeletePrepTemplateRow(db, call[p].id)
            /\ Finish(p, Returned)
    /\ UNCHANGED <<fs, log, pipeline>>

---------------------------------------------------------------------------
(* The methods of a template object *)

\* MetadataTemplate._check_id: PrepTemplate(id) can be built while rows of
\* common_prep_info carry the id
check_id(d, id) == get_sample_ids(d, id) # {}

\* prep_template.py 474-479: the investigation_type property
investigation_type_of(d, id) == d.prep_template[id].investigation_type

\* Mutant: the UPDATE stores the first term of the ontology.
UpdateInvestigationType_FirstTerm(d, id, investigation_type) ==
    IF id \in DOMAIN d.prep_template
    THEN [d EXCEPT !.prep_template[id].investigation_type = "Amplicon"]
    ELSE d

\* prep_template.py 498-503: UPDATE qiita.prep_template SET
\* investigation_type, of the row of the id
UpdateInvestigationType(d, id, investigation_type) ==
    IF id \in DOMAIN d.prep_template
    THEN [d EXCEPT !.prep_template[id].investigation_type = investigation_type]
    ELSE d

\* prep_template.py 481-503: PrepTemplate(id).investigation_type = value
SetInvestigationType(p, id, investigation_type) ==
    /\ pc[p] \in {"idle", "done"}
    /\ check_id(db, id)
    /\ LET this == [NoCall EXCEPT !.op = "investigation_type", !.id = id,
                                  !.value = investigation_type]
       IN  IF investigation_type # None
              /\ ~valid_investigation_type(investigation_type)
           THEN /\ EndCall(p, this, InvalidInvestigationTypeError)
                /\ UNCHANGED db
           ELSE /\ db' = UpdateInvestigationType(db, id, investigation_type)
                /\ EndCall(p, this, Returned)
    /\ UNCHANGED <<fs, log, pipeline>>

\* MetadataTemplate.add_filepath, 721-756: PrepTemplate(id).add_filepath(
\* filepath), called on its own with a file of the templates mount point
CallAddFilepath(p, id, filepath) ==
    /\ pc[p] \in {"idle", "done"}
    /\ check_id(db, id)
    /\ Len(db.filepath) < MaxFilepaths
    /\ filepath \in DOMAIN fs
    /\ LET this == [NoCall EXCEPT !.op = "add_filepath", !.id = id,
                                  !.value = filepath]
       IN  IF id \in DOMAIN db.prep_template
           THEN /\ db' = add_filepath(db, id, filepath)
                /\ EndCall(p, this, Returned)
                /\ UNCHANGED log
           ELSE /\ db' = insert_filepaths(db, filepath)
                /\ log' = Append(log, LogRuntime(id))
                /\ EndCall(p, this, Raised("StoreError", {}, {}))
    /\ UNCHANGED <<fs, pipeline>>

\* MetadataTemplate.__contains__: the template has the sample
contains(d, id, sample_id) == sample_id \in get_sample_ids(d, id)

\* base_metadata_template.py 528-538: template[sample_id] = sample raises
\* before it reaches the store
template_setitem(d, id, key) == d

\* Mutant: the rows of the sample are removed.
template_delitem_Removes(d, id, key) ==
    [d EXCEPT !.common_prep_info = @ \ {<<id, key>>},
              !.tables[id].rows = @ \ {key}]

\* base_metadata_template.py 540-548: del template[sample_id] raises before
\* it reaches the store
template_delitem(d, id, key) == d

\* base_metadata_template.py 227-237: sample[category] = value raises before
\* it reaches the store
sample_setitem(d, id, key) == d

\* base_metadata_template.py 239-247: del sample[category] raises before it
\* reaches the store
sample_delitem(d, id, key) == d

\* the item methods of a template, keyed by sample id, and of a sample,
\* keyed by category
TemplateItemMethods == {"template.__setitem__", "template.__delitem__"}

SampleItemMethods == {"sample.__setitem__", "sample.__delitem__"}

\* the sample ids and the categories the item methods are called with
ItemSampleIds == { <<"1", ".", "A">>, <<"1", ".", "C">> }

ItemCategories == {"ph", "center_name"}

\* one of the item methods called on PrepTemplate(id)
TemplateItemCall(p, id, method, key) ==
    /\ pc[p] \in {"idle", "done"}
    /\ check_id(db, id)
    /\ db' = (IF method = "template.__setitem__"
              THEN template_setitem(db, id, key)
              ELSE template_delitem(db, id, key))
    /\ EndCall(p, [NoCall EXCEPT !.op = method, !.id = id, !.value = key],
               Raised("NotImplementedError", {}, {}))
    /\ UNCHANGED <<fs, log, pipeline>>

\* one of the item methods called on PrepTemplate(id)[sample_id]: the
\* sample object is built only for a sample of the template (78-106)
SampleItemCall(p, id, method, sample_id, key) ==
    /\ pc[p] \in {"idle", "done"}
    /\ check_id(db, id)
    /\ contains(db, id, sample_id)
    /\ db' = (IF method = "sample.__setitem__"
              THEN sample_setitem(db, id, <<sample_id, key>>)
              ELSE sample_delitem(db, id, <<sample_id, key>>))
    /\ EndCall(p, [NoCall EXCEPT !.op = method, !.id = id,
                                 !.value = <<sample_id, key>>],
               Raised("NotImplementedError", {}, {}))
    /\ UNCHANGED <<fs, log, pipeline>>

\* the files a caller hands to create_qiime_mapping_file
PrepTemplateFiles == {f \in DOMAIN fs : f[1] \in {"prep", "upload"}}

\* PrepTemplate(id).create_qiime_mapping_file(prep_template_fp), called on
\* its own; every call adds a row to qiita.filepath
CallCreateQiimeMappingFile(p, id, prep_template_fp) ==
    /\ pc[p] \in {"idle", "done"}
    /\ check_id(db, id)
    /\ Len(db.filepath) < MaxFilepaths
    /\ prep_template_fp \in PrepTemplateFiles
    /\ create_qiime_mapping_file(
          p, [NoCall EXCEPT !.op = "create_qiime_mapping_file", !.id = id,
                            !.value = prep_template_fp],
          prep_template_fp)
    /\ UNCHANGED pipeline

---------------------------------------------------------------------------
(* Strain.create and Strain.exists *)

\* the unofficial names callers give their strains
StrainNames == {"B. theta", "E. coli"}

\* Mutant: the SELECT looks at the official name, which create() never sets.
strain_exists_ByOfficialName(d, unofficial_name) ==
    \E i \in DOMAIN d.strain : d.strain[i].official_name = unofficial_name

\* strain.py 56-62: SELECT EXISTS(SELECT * FROM qiita.strain WHERE
\* unofficial_name=%s)
strain_exists(d, unofficial_name) ==
    \E i \in DOMAIN d.strain : d.strain[i].unofficial_name = unofficial_name

\* strain.py 35-41: the new row of qiita.strain; strain_id is the next value
\* of the sequence, the columns create() does not name are NULL
InsertStrain(d, unofficial_name) ==
    [d EXCEPT !.strain = Append(@, [unofficial_name |-> unofficial_name,
                                    official_name |-> None,
                                    sequence_filepath_id |-> None])]

\* strain.py 27-32: the check that the strain does not exist yet
StrainCreateStart(p, unofficial_name) ==
    /\ pc[p] \in {"idle", "done"}
    /\ Len(db.strain) < MaxStrains
    /\ LET this == [NoCall EXCEPT !.op = "Strain.create",
                                  !.value = unofficial_name]
       IN  IF strain_exists(db, unofficial_name)
           THEN EndCall(p, this, Raised("DuplicateError", {}, {}))
           ELSE /\ pc' = [pc EXCEPT ![p] = "strain_insert"]
                /\ call' = [call EXCEPT ![p] = this]
                /\ result' = [result EXCEPT ![p] = NoResult]
                /\ UNCHANGED queues
    /\ UNCHANGED <<db, fs, log, pipeline>>

\* strain.py 35-41: INSERT INTO qiita.strain ... RETURNING strain_id.  The
\* definition of the table is not in the files at hand: on a name that is
\* stored already the store either has a unique index and refuses the row,
\* or has none and adds it.
StrainInsert(p) ==
    /\ pc[p] = "strain_insert"
    /\ \E refused \in BOOLEAN :
          /\ refused => strain_exists(db, call[p].value)
          /\ IF refused
             THEN /\ Finish(p, ExecutionError(1))
                  /\ UNCHANGED db
             ELSE /\ db' = InsertStrain(db, call[p].value)
                  /\ pc' = [pc EXCEPT ![p] = "strain_filepath"]
                  /\ call' = [call EXCEPT ![p].id = Len(db.strain) + 1]
                  /\ UNCHANGED <<queues, result>>
    /\ UNCHANGED <<fs, log, pipeline>>

\* strain.py 44-48: insert_filepaths([(sequence_fp, filetype_id)], strain_id,
\* "strain", "filepath", conn_handler)
StrainInsertFilepath(p) ==
    /\ pc[p] = "strain_filepath"
    /\ db' = insert_filepaths(db, <<"strain", call[p].id>>)
    /\ Goto(p, "strain_update")
    /\ UNCHANGED <<fs, call, queues, result, log, pipeline>>

\* the filepath_id insert_filepaths returned for the strain
seq_fp_id(d, strain_id) ==
    CHOOSE i \in DOMAIN d.filepath : d.filepath[i] = <<"strain", strain_id>>

\* strain.py 50-54: UPDATE qiita.strain SET sequence_filepath_id, and the
\* object returned
StrainUpdate(p) ==
    /\ pc[p] = "strain_update"
    /\ db' = [db EXCEPT !.strain[call[p].id].sequence_filepath_id =
                            seq_fp_id(db, call[p].id)]
    /\ Finish(p, Returned)
    /\ UNCHANGED <<fs, log, pipeline>>

\* strain.py 56-62: Strain.exists(unofficial_name), called on its own; the
\* boolean it returns is held as "True" or "False"
StrainExists(p, unofficial_name) ==
    /\ pc[p] \in {"idle", "done"}
    /\ EndCall(p, [NoCall EXCEPT !.op = "Strain.exists",
                                 !.value = unofficial_name],
               [Returned EXCEPT !.value = IF strain_exists(db, unofficial_name)
                                          THEN "True" ELSE "False"])
    /\ UNCHANGED <<db, fs, log, pipeline>>

---------------------------------------------------------------------------
(* SampleTemplate.delete, SampleTemplate.create and SampleTemplateAdder.run *)

\* the core column every sample template has to carry; its values are the
\* rows of qiita.required_sample_info
sample_required_cols == {"collection_timestamp"}

\* the sample templates handed to SampleTemplateAdder.run
AdderTemplates ==
    { [index |-> << <<"A">>, <<"B">> >>,
       columns |-> <<"collection_timestamp", "description", "PH">>],
      [index |-> << <<"A">>, <<"C">> >>,
       columns |-> <<"collection_timestamp", "description">>],
      [index |-> << <<"A", "#">> >>,
       columns |-> <<"collection_timestamp", "description">>],
      [index |-> << <<"A">> >>,
       columns |-> <<"description", "PH">>] }

\* MetadataTemplate.exists, for a sample template: the table sample_<id>
sample_exists(d, id) == id \in DOMAIN d.sample_tables

\* the checks of a bulk load of a sample template, before the first write
sample_create_checks(sample_template) ==
    LET invalid_ids == get_invalid_sample_names(sample_template.index)
        lowered == LowerColumns(sample_template.columns)
        missing == sample_required_cols \ Range(lowered)
    IN  IF invalid_ids # {}
        THEN Raised("InvalidSampleIdError", invalid_ids, {})
        ELSE IF HasDuplicateHeader(lowered)
        THEN Raised("DuplicateHeaderError", {}, find_duplicates(lowered))
        ELSE IF missing # {}
        THEN Raised("MissingColumnsError", {}, missing)
        ELSE NoResult

\* the store after the statements of a bulk load of a sample template have
\* committed: the required rows, the registry rows, the table and its rows
InsertSampleTemplate(d, id, sample_template) ==
    LET index == Range(prefix_sample_names_with_id(sample_template.index, id))
        headers == Range(LowerColumns(sample_template.columns))
                       \ sample_required_cols
    IN  [d EXCEPT !.required_sample_info = @ \cup index,
                  !.study_sample_columns = @ \cup {<<id, c>> : c \in headers},
                  !.sample_tables =
                      (id :> [columns |-> headers, rows |-> index]) @@ @]

\* the call of MetadataTemplate.delete or of SampleTemplateAdder.run that p
\* is in
InAdderRun(p) == call[p].op = "SampleTemplateAdder.run"

\* base_metadata_template.py 428-430: the template has to exist
SampleDeleteCheck(p, this) ==
    IF ~sample_exists(db, this.id)
    THEN EndCall(p, this, Raised("UnknownTemplateError", {}, {}))
    ELSE /\ pc' = [pc EXCEPT ![p] = "st_del_filepaths"]
         /\ call' = [call EXCEPT ![p] = this]
         /\ result' = [result EXCEPT ![p] = NoResult]
         /\ UNCHANGED queues

\* MetadataTemplate.delete, 414-430: SampleTemplate.delete(id_)
SampleDeleteStart(p, id) ==
    /\ pc[p] \in {"idle", "done"}
    /\ SampleDeleteCheck(p, [NoCall EXCEPT !.op = "SampleTemplate.delete",
                                           !.id = id])
    /\ UNCHANGED <<db, fs, log, pipeline>>

\* sample_template_adder.py 37-46: run(sample_template, study_id, clear);
\* with clear the old template is deleted first
AdderRun(p, sample_template, id, clear) ==
    /\ pc[p] \in {"idle", "done"}
    /\ Len(db.filepath) < MaxFilepaths
    /\ LET this == [NoCall EXCEPT !.op = "SampleTemplateAdder.run",
                                  !.id = id,
                                  !.index = sample_template.index,
                                  !.value = [columns |-> sample_template.columns,
                                             clear |-> clear]]
       IN  IF clear
           THEN SampleDeleteCheck(p, this)
           ELSE /\ pc' = [pc EXCEPT ![p] = "st_create"]
                /\ call' = [call EXCEPT ![p] = this]
                /\ result' = [result EXCEPT ![p] = NoResult]
                /\ UNCHANGED queues
    /\ UNCHANGED <<db, fs, log, pipeline>>

\* base_metadata_template.py 435-440: DELETE FROM
\* qiita.sample_template_filepath
SampleDeleteFilepaths(p) ==
    /\ pc[p] = "st_del_filepaths"
    /\ db' = [db EXCEPT !.sample_template_filepath =
                            {r \in @ : r[1] # call[p].id}]
    /\ Goto(p, "st_del_drop")
    /\ UNCHANGED <<fs, call, queues, result, log, pipeline>>

\* base_metadata_template.py 442-443: DROP TABLE fails on a table that is
\* not there
SampleDeleteDropTable(p) ==
    /\ pc[p] = "st_del_drop"
    /\ IF sample_exists(db, call[p].id)
       THEN /\ db' = [db EXCEPT !.sample_tables =
                                [x \in DOMAIN @ \ {call[p].id} |-> @[x]]]
            /\ Goto(p, "st_del_required")
            /\ UNCHANGED <<call, queues, result>>
       ELSE /\ Finish(p, Raised("StoreError", {}, {}))
            /\ UNCHANGED db
    /\ UNCHANGED <<fs, log, pipeline>>

\* base_metadata_template.py 444-447: DELETE FROM qiita.required_sample_info;
\* the store refuses while rows of common_prep_info refer to the samples
SampleDeleteRequired(p) ==
    /\ pc[p] = "st_del_required"
    /\ IF \E r \in db.common_prep_info : r[2] \in db.required_sample_info
       THEN /\ Finish(p, Raised("StoreError", {}, {}))
            /\ UNCHANGED db
       ELSE /\ db' = [db EXCEPT !.required_sample_info = {}]
            /\ Goto(p, "st_del_columns")
            /\ UNCHANGED <<call, queues, result>>
    /\ UNCHANGED <<fs, log, pipeline>>

\* base_metadata_template.py 448-451: DELETE FROM qiita.study_sample_columns,
\* the last statement of delete; sample_template_adder.py 46 comes next
SampleDeleteColumns(p) ==
    /\ pc[p] = "st_del_columns"
    /\ db' = [db EXCEPT !.study_sample_columns = {r \in @ : r[1] # call[p].id}]
    /\ IF InAdderRun(p)
       THEN Goto(p, "st_create") /\ UNCHANGED <<call, queues, result>>
       ELSE Finish(p, Returned)
    /\ UNCHANGED <<fs, log, pipeline>>

\* sample_template_adder.py 46: SampleTemplate.create(sample_template,
\* study_id), its checks and its statements, committed together or not at
\* all; the store refuses them when the table is there already, and may
\* refuse them for a reason of its own
SampleCreate(p) ==
    /\ pc[p] = "st_create"
    /\ LET sample_template == [index |-> call[p].index,
                               columns |-> call[p].value.columns]
           error == sample_create_checks(sample_template)
       IN  IF error # NoResult
           THEN Finish(p, error) /\ UNCHANGED db
           ELSE \E refused \in BOOLEAN :
                  IF refused \/ sample_exists(db, call[p].id)
                  THEN Finish(p, ExecutionError(1)) /\ UNCHANGED db
                  ELSE /\ db' = InsertSampleTemplate(db, call[p].id,
                                                     sample_template)
                       /\ Goto(p, "st_to_file")
                       /\ UNCHANGED <<call, queues, result>>
    /\ UNCHANGED <<fs, log, pipeline>>

\* the name of the next file of a sample template
sample_template_fp(d) == <<"sample", Len(d.filepath) + 1>>

\* the backup of the new sample template: to_file, SELECT * FROM the
\* dynamic table (base_metadata_template.py 667-698)
SampleToFile(p) ==
    /\ pc[p] = "st_to_file"
    /\ fs' = (sample_template_fp(db) :>
                [index |-> db.sample_tables[call[p].id].rows,
                 columns |-> db.sample_tables[call[p].id].columns]) @@ fs
    /\ Goto(p, "st_add_filepath")
    /\ UNCHANGED <<db, call, queues, result, log, pipeline>>

\* the backup is registered (base_metadata_template.py 745-752, for a sample
\* template), and run returns the new template (sample_template_adder.py 48)
SampleAddFilepath(p) ==
    /\ pc[p] = "st_add_filepath"
    /\ db' = [insert_filepaths(db, sample_template_fp(db)) EXCEPT
                 !.sample_template_filepath =
                     @ \cup {<<call[p].id, Len(db.filepath) + 1>>}]
    /\ Finish(p, Returned)
    /\ UNCHANGED <<fs, log, pipeline>>

---------------------------------------------------------------------------
(* The preprocessing pipeline: StudyPreprocessor and the functions of its nodes *)

\* prep_template.py 463-465: the states the setter accepts
FailedStatus(msg) == "failed: " \o msg

Messages ==
    {"command", "no demultiplexed fastq file", "not all the expected files",
     "store"}

ValidStatuses ==
    {"not_preprocessed", "preprocessing", "success"}
        \cup {FailedStatus(m) : m \in Messages}

\* str.startswith
startswith(s, prefix) ==
    Len(s) >= Len(prefix) /\ SubSeq(s, 1, Len(prefix)) = prefix

\* Mutant: the failure states are told by the word alone.
valid_preprocessing_status_Failed(state) ==
    \/ state \in {"not_preprocessed", "preprocessing", "success"}
    \/ startswith(state, "failed")

\* prep_template.py 463-465: the condition under which the setter does not
\* raise
valid_preprocessing_status(state) ==
    \/ state \in {"not_preprocessed", "preprocessing", "success"}
    \/ startswith(state, "failed:")

\* prep_template.py 449-472: the preprocessing_status setter, an UPDATE of
\* the prep_template row of the id (of no row, when the row is gone)
SetStatus(d, id, state) ==
    IF valid_preprocessing_status(state) /\ id \in DOMAIN d.prep_template
    THEN [d EXCEPT !.prep_template[id].preprocessing_status = state]
    ELSE d

\* prep_template.py 435-447: the preprocessing_status property, a SELECT of
\* the column of the prep_template row of the id
GetPreprocessingStatus(p, id) ==
    /\ pc[p] \in {"idle", "done"}
    /\ check_id(db, id)
    /\ id \in DOMAIN db.prep_template
    /\ EndCall(p, [NoCall EXCEPT !.op = "preprocessing_status.get", !.id = id],
               [Returned EXCEPT
                   !.value = db.prep_template[id].preprocessing_status])
    /\ UNCHANGED <<db, fs, log, pipeline>>

\* the states handed to the preprocessing_status setter
StatusValues ==
    {"preprocessing", "success", "failed: command", "failed:",
     "failed", "Success", "done"}

\* prep_template.py 449-472: PrepTemplate(id).preprocessing_status = state
SetPreprocessingStatus(p, id, state) ==
    /\ pc[p] \in {"idle", "done"}
    /\ check_id(db, id)
    /\ LET this == [NoCall EXCEPT !.op = "preprocessing_status", !.id = id,
                                  !.value = state]
       IN  IF ~valid_preprocessing_status(state)
           THEN /\ EndCall(p, this, Raised("ValueError", {}, {}))
                /\ UNCHANGED db
           ELSE /\ db' = SetStatus(db, id, state)
                /\ EndCall(p, this, Returned)
    /\ UNCHANGED <<fs, log, pipeline>>

InputFiletypes == {"FASTQ", "SFF"}

\* the files split_libraries_fastq.py is expected to leave, and the one
\* _generate_demux_file adds
CommandFiles == {"seqs.fna", "seqs.fastq", "split_library_log.txt"}

ExpectedFiles == CommandFiles \cup {"seqs.demux"}

\* what the external command may leave behind when it exits with success
CommandOutputs == {CommandFiles} \cup {CommandFiles \ {f} : f \in CommandFiles}

RunOver == {"none", "raised", "ended"}

\* StudyPreprocessor._construct_job_graph, 337-340: the run is invoked for
\* a raw data whose prep template can be read; the status is set first
PipelineStart(id, filetype) ==
    /\ pipeline.started < MaxRuns
    /\ pipeline.run.pc \in RunOver
    /\ id \in DOMAIN db.prep_template
    /\ exists(db, id)
    /\ db' = SetStatus(db, id, "preprocessing")
    /\ pipeline' = [started |-> pipeline.started + 1,
                    run |-> [NoRun EXCEPT !.raw_data = id,
                                          !.filetype = filetype,
                                          !.pc = "construct"]]
    /\ UNCHANGED <<fs, pc, call, queues, result, log>>

\* Mutant: the insert node does not wait for the demux node.
job_graph_NoSecondEdge ==
    [nodes |-> {"PREPROCESS", "GEN_DEMUX_FILE", "INSERT_PREPROCESSED"},
     edges |-> {<<"PREPROCESS", "GEN_DEMUX_FILE">>},
     requires_deps |-> {}]

\* processing_pipeline.py 358-379: add_node and add_edge; requires_deps holds
\* the nodes added with requires_deps=True
job_graph ==
    [nodes |-> {"PREPROCESS", "GEN_DEMUX_FILE", "INSERT_PREPROCESSED"},
     edges |-> {<<"PREPROCESS", "GEN_DEMUX_FILE">>,
                <<"GEN_DEMUX_FILE", "INSERT_PREPROCESSED">>},
     requires_deps |-> {}]

\* The exception leaves _construct_job_graph: no node exists yet, and the
\* function has no handler of its own.
RaiseFromConstruct(run, msg) == [run EXCEPT !.pc = "raised", !.msg = msg]

\* processing_pipeline.py 346-381: the filetype, the command
\* (_get_preprocess_fastq_cmd, 180-235), the three nodes.  has_seqs says
\* whether the raw data has a forward reads file (195-197).
ConstructJobGraph(has_seqs) ==
    LET run == pipeline.run
    IN  /\ run.pc = "construct"
        /\ pipeline' =
             [pipeline EXCEPT !.run =
                IF run.filetype # "FASTQ"
                THEN RaiseFromConstruct(run, "filetype not supported")
                ELSE IF ~has_seqs
                THEN RaiseFromConstruct(run, "Forward reads file not found")
                ELSE IF ~exists(db, run.raw_data)
                THEN RaiseFromConstruct(run, "unknown prep template")
                ELSE [run EXCEPT !.pc = "execute",
                                 !.created = {"MMF", "slq_out"},
                                 !.nodes = job_graph.nodes,
                                 !.edges = job_graph.edges,
                                 !.requires_deps = job_graph.requires_deps,
                                 !.dirpaths_to_remove = {"slq_out"}]]
        /\ UNCHANGED <<db, fs, pc, call, queues, result, log>>

\* The executor: a node runs when every node it has an edge from has
\* completed and no node has failed.
completed(run) == Range(run.executed) \ {run.failed_node}

Ready(run, node) ==
    /\ run.pc = "execute"
    /\ node \in run.nodes
    /\ node \notin Range(run.executed)
    /\ \A e \in run.edges : e[2] = node => e[1] \in completed(run)

\* the node has completed: the run goes on, or is over with the last node
NodeCompleted(run, node) ==
    [run EXCEPT !.executed = Append(@, node),
                !.pc = IF run.nodes \subseteq Range(run.executed) \cup {node}
                       THEN "ended" ELSE "execute"]

\* the node has failed: the remaining nodes are dropped, the failure
\* callback is due
NodeFailed(run, node, msg) ==
    [run EXCEPT !.executed = Append(@, node), !.failed_node = node,
                !.msg = msg, !.pc = "callback"]

\* node PREPROCESS, 360-361: the external command exits with success and
\* leaves the files out
RunPreprocess(out) ==
    /\ Ready(pipeline.run, "PREPROCESS")
    /\ pipeline' = [pipeline EXCEPT !.run =
                        NodeCompleted([@ EXCEPT !.files = out], "PREPROCESS")]
    /\ UNCHANGED <<db, fs, pc, call, queues, result, log>>

\* node PREPROCESS: the external command exits with an error
PreprocessFails ==
    /\ Ready(pipeline.run, "PREPROCESS")
    /\ pipeline' = [pipeline EXCEPT !.run =
                        NodeFailed(@, "PREPROCESS", "command")]
    /\ UNCHANGED <<db, fs, pc, call, queues, result, log>>

\* node GEN_DEMUX_FILE: _generate_demux_file, 256-263
RunGenDemux ==
    /\ Ready(pipeline.run, "GEN_DEMUX_FILE")
    /\ pipeline' =
         [pipeline EXCEPT !.run =
            IF "seqs.fastq" \notin @.files
            THEN NodeFailed(@, "GEN_DEMUX_FILE", "no demultiplexed fastq file")
            ELSE NodeCompleted([@ EXCEPT !.files = @ \cup {"seqs.demux"}],
                               "GEN_DEMUX_FILE")]
    /\ UNCHANGED <<db, fs, pc, call, queues, result, log>>

\* A file of the output directory is removed before the insert step.
RemoveOutputFile(f) ==
    /\ Ready(pipeline.run, "INSERT_PREPROCESSED")
    /\ pipeline.run.files = ExpectedFiles
    /\ f \in ExpectedFiles
    /\ pipeline' = [pipeline EXCEPT !.run.files = @ \ {f}]
    /\ UNCHANGED <<db, fs, pc, call, queues, result, log>>

\* Mutant: the log file of the command is not asked for.
AllFilesExist_NoLog(files) ==
    {"seqs.fna", "seqs.fastq", "seqs.demux"} \subseteq files

\* processing_pipeline.py 302-303
AllFilesExist(files) ==
    /\ "seqs.fna" \in files
    /\ "seqs.fastq" \in files
    /\ "seqs.demux" \in files
    /\ "split_library_log.txt" \in files

\* PreprocessedData.create, 312-313: the new preprocessed data is linked to
\* the prep template of the raw data
LinkPreprocessedData(d, id, ppd_id) ==
    [d EXCEPT !.prep_template_preprocessed_data = @ \cup {<<id, ppd_id>>}]

\* Mutant: the status is set to success before the files are looked for.
RunInsert_StatusFirst ==
    LET run == pipeline.run
        id == run.raw_data
    IN  /\ Ready(run, "INSERT_PREPROCESSED")
        /\ IF ~AllFilesExist(run.files)
           THEN /\ pipeline' = [pipeline EXCEPT !.run =
                        NodeFailed(@, "INSERT_PREPROCESSED",
                                   "not all the expected files")]
                /\ db' = SetStatus(db, id, "success")
           ELSE IF id \notin DOMAIN db.prep_template
           THEN /\ pipeline' = [pipeline EXCEPT !.run =
                        NodeFailed(@, "INSERT_PREPROCESSED", "store")]
                /\ UNCHANGED db
           ELSE /\ db' = SetStatus(LinkPreprocessedData(db, id, pipeline.started),
                                   id, "success")
                /\ pipeline' = [pipeline EXCEPT !.run =
                        NodeCompleted(@, "INSERT_PREPROCESSED")]
        /\ UNCHANGED <<fs, pc, call, queues, result, log>>

\* node INSERT_PREPROCESSED: _insert_preprocessed_data_fastq, 295-316; the
\* store refuses a link to a prep_template row that is not there
RunInsert ==
    LET run == pipeline.run
        id == run.raw_data
    IN  /\ Ready(run, "INSERT_PREPROCESSED")
        /\ IF ~AllFilesExist(run.files)
           THEN /\ pipeline' = [pipeline EXCEPT !.run =
                        NodeFailed(@, "INSERT_PREPROCESSED",
                                   "not all the expected files")]
                /\ UNCHANGED db
           ELSE IF id \notin DOMAIN db.prep_template
           THEN /\ pipeline' = [pipeline EXCEPT !.run =
                        NodeFailed(@, "INSERT_PREPROCESSED", "store")]
                /\ UNCHANGED db
           ELSE /\ db' = SetStatus(LinkPreprocessedData(db, id, pipeline.started),
                                   id, "success")
                /\ pipeline' = [pipeline EXCEPT !.run =
                        NodeCompleted(@, "INSERT_PREPROCESSED")]
        /\ UNCHANGED <<fs, pc, call, queues, result, log>>

\* Mutant: the callback sets the status and writes no log record.
LogFatal_Nothing(l, msg, raw_data_id) == l

\* processing_pipeline.py 389: LogEntry.create('Fatal', msg, info=...)
LogFatal(l, msg, raw_data_id) ==
    Append(l, [category |-> "Fatal", msg |-> msg, id |-> raw_data_id])

\* StudyPreprocessor._failure_callback, 383-389, called by the executor for
\* the node that failed
FailureCallback ==
    LET run == pipeline.run
    IN  /\ run.pc = "callback"
        /\ db' = SetStatus(db, run.raw_data, FailedStatus(run.msg))
        /\ log' = LogFatal(log, run.msg, run.raw_data)
        /\ pipeline' = [pipeline EXCEPT !.run.callbacks = @ + 1,
                                        !.run.pc = "ended"]
        /\ UNCHANGED <<fs, pc, call, queues, result>>

---------------------------------------------------------------------------
(* The specification *)

PrepIds == 1..MaxPrepId

NotPreprocessed(id) ==
    /\ id \in DOMAIN db.prep_template
    /\ db.prep_template[id].preprocessing_status = "not_preprocessed"

\* a FASTQ raw data is submitted while its template is not_preprocessed
SubmitOnce(id) == NotPreprocessed(id) /\ PipelineStart(id, "FASTQ")

\* Callers create and delete templates with every input; each template is
\* submitted for preprocessing while it is not_preprocessed, its raw data is
\* FASTQ and complete, and the external command leaves all of its files.
Next ==
    \/ \E p \in Callers :
        \/ \E index \in InputIndexes, columns \in InputColumns,
              data_type \in InputDataTypes,
              investigation_type \in InputInvestigationTypes :
                CreateStart(p, index, columns, data_type, investigation_type)
        \/ ExecuteQueue(p)
        \/ CleanupRoot(p)
        \/ Diagnose(p)
        \/ ToFile(p)
        \/ AddFilepath(p)
        \/ CreateQiimeMappingFile(p)
        \/ \E id \in PrepIds : DeleteStart(p, id)
        \/ DeleteCheckPreprocessed(p)
        \/ DeleteFilepaths(p)
        \/ DeleteDropTable(p)
        \/ DeleteCommonPrepInfo(p)
        \/ DeletePrepColumns(p)
        \/ DeleteRoot(p)
    \/ \E id \in PrepIds : SubmitOnce(id)
    \/ ConstructJobGraph(TRUE)
    \/ RunPreprocess(CommandFiles)
    \/ RunGenDemux
    \/ RunInsert
    \/ FailureCallback

Spec == Init /\ [][Next]_vars

\* the one template the callers of the pipeline specifications create
PipelineIndex == IndexOf({1, 2})

PipelineColumns == <<"center_name">> \o TargetGeneHeaders \o <<"PH">>

\* every step of a caller but the start of a create
CallerStep(p) ==
    \/ ExecuteQueue(p)
    \/ CleanupRoot(p)
    \/ Diagnose(p)
    \/ ToFile(p)
    \/ AddFilepath(p)
    \/ CreateQiimeMappingFile(p)
    \/ \E id \in PrepIds : DeleteStart(p, id)
    \/ DeleteCheckPreprocessed(p)
    \/ DeleteFilepaths(p)
    \/ DeleteDropTable(p)
    \/ DeleteCommonPrepInfo(p)
    \/ DeletePrepColumns(p)
    \/ DeleteRoot(p)

\* every step of a run but its invocation
RunStep ==
    \/ \E has_seqs \in BOOLEAN : ConstructJobGraph(has_seqs)
    \/ \E out \in CommandOutputs : RunPreprocess(out)
    \/ PreprocessFails
    \/ RunGenDemux
    \/ \E f \in ExpectedFiles : RemoveOutputFile(f)
    \/ RunInsert
    \/ FailureCallback

\* Callers create one valid template and delete it; a template is submitted
\* for preprocessing whatever its status is, with every raw data, every
\* outcome of the external command and every loss of an output file.
PipelineNext ==
    \/ \E p \in Callers :
        \/ CreateStart(p, PipelineIndex, PipelineColumns, "16S", None)
        \/ CallerStep(p)
    \/ \E id \in PrepIds, filetype \in InputFiletypes : PipelineStart(id, filetype)
    \/ RunStep

PipelineSpec == Init /\ [][PipelineNext]_vars

\* the names a file of the model may have
Filepaths ==
    {<<"sample", 1>>, <<"upload", 1>>}
        \cup {<<kind, id>> : kind \in {"prep", "qiime"}, id \in PrepIds}

\* the values handed to the investigation_type setter
SetterValues == InputInvestigationTypes \cup ontology_terms

\* Callers create one template with every investigation type, delete it,
\* and call the methods of the template objects in between.
ObjectNext ==
    \E p \in Callers :
        \/ \E investigation_type \in InputInvestigationTypes :
              CreateStart(p, PipelineIndex, PipelineColumns, "16S",
                          investigation_type)
        \/ CallerStep(p)
        \/ \E id \in PrepIds, investigation_type \in SetterValues :
              SetInvestigationType(p, id, investigation_type)
        \/ \E id \in PrepIds, prep_template_fp \in Filepaths :
              CallCreateQiimeMappingFile(p, id, prep_template_fp)
        \/ \E id \in PrepIds, filepath \in Filepaths :
              CallAddFilepath(p, id, filepath)
        \/ \E id \in PrepIds, method \in TemplateItemMethods,
              key \in ItemSampleIds :
              TemplateItemCall(p, id, method, key)
        \/ \E id \in PrepIds, method \in SampleItemMethods,
              sample_id \in ItemSampleIds, key \in ItemCategories :
              SampleItemCall(p, id, method, sample_id, key)

ObjectSpec == Init /\ [][ObjectNext]_vars

---------------------------------------------------------------------------
(* Callers that run at the same time *)

ConcurrentCallers == {"c1", "c2"}

\* the store of Init, with two callers
ConcurrentInit ==
    /\ db = InitialStore
    /\ fs = (<<"sample", 1>> :> SampleTemplateFile)
                @@ (<<"upload", 1>> :> UploadedFile)
    /\ pc = [p \in ConcurrentCallers |-> "idle"]
    /\ call = [p \in ConcurrentCallers |-> NoCall]
    /\ queues = [p \in ConcurrentCallers |-> <<>>]
    /\ result = [p \in ConcurrentCallers |-> NoResult]
    /\ log = <<>>
    /\ pipeline = [started |-> 0, run |-> NoRun]

\* Two callers create strains and ask for them, their statements interleaved.
StrainNext ==
    \E p \in ConcurrentCallers :
        \/ \E unofficial_name \in StrainNames : StrainCreateStart(p, unofficial_name)
        \/ StrainInsert(p)
        \/ StrainInsertFilepath(p)
        \/ StrainUpdate(p)
        \/ \E unofficial_name \in StrainNames : StrainExists(p, unofficial_name)

StrainSpec == ConcurrentInit /\ [][StrainNext]_vars

---------------------------------------------------------------------------
(* The command that adds a sample template *)

\* every step of a caller inside SampleTemplate.delete and
\* SampleTemplateAdder.run
AdderStep(p) ==
    \/ SampleDeleteFilepaths(p)
    \/ SampleDeleteDropTable(p)
    \/ SampleDeleteRequired(p)
    \/ SampleDeleteColumns(p)
    \/ SampleCreate(p)
    \/ SampleToFile(p)
    \/ SampleAddFilepath(p)

\* Callers add sample templates to the study, with and without clear, and
\* delete its sample template; they create one prep template and delete it.
AdderNext ==
    \E p \in Callers :
        \/ \E sample_template \in AdderTemplates, clear \in BOOLEAN :
              AdderRun(p, sample_template, study.id, clear)
        \/ SampleDeleteStart(p, study.id)
        \/ AdderStep(p)
        \/ CreateStart(p, PipelineIndex, PipelineColumns, "16S", None)
        \/ CallerStep(p)

AdderSpec == Init /\ [][AdderNext]_vars

---------------------------------------------------------------------------
(* The preprocessing status of a template, set by its callers *)

\* Callers create one template and delete it, and in between set its
\* preprocessing status to every value and read it; the template is
\* submitted for preprocessing, and the external command succeeds or fails.
StatusNext ==
    \/ \E p \in Callers :
        \/ CreateStart(p, PipelineIndex, PipelineColumns, "16S", None)
        \/ CallerStep(p)
        \/ \E id \in PrepIds, state \in StatusValues :
              SetPreprocessingStatus(p, id, state)
        \/ \E id \in PrepIds : GetPreprocessingStatus(p, id)
    \/ \E id \in PrepIds : PipelineStart(id, "FASTQ")
    \/ ConstructJobGraph(TRUE)
    \/ RunPreprocess(CommandFiles)
    \/ PreprocessFails
    \/ RunGenDemux
    \/ RunInsert
    \/ FailureCallback

StatusSpec == Init /\ [][StatusNext]_vars

---------------------------------------------------------------------------
(* Two create() calls for the same raw data, at the same time *)

\* the templates the two callers hand in: one that commits, one with a
\* sample the study does not have, one without the required columns
ConcurrentInputs ==
    { <<PipelineIndex, PipelineColumns>>,
      <<IndexOf({1, 3}), PipelineColumns>>,
      <<IndexOf({1}), <<"center_name">> >> }

\* create() for the raw data of the model, while the sequence has an id for
\* each of the callers
ConcurrentCreateStart(p, index, columns) ==
    /\ db.prep_template_id_seq <= MaxPrepId + 1
    /\ create(p, index, columns, "16S", None)

\* The statements of the two calls interleave in every way.
ConcurrentCreateNext ==
    \E p \in ConcurrentCallers :
        \/ \E in \in ConcurrentInputs : ConcurrentCreateStart(p, in[1], in[2])
        \/ ExecuteQueue(p)
        \/ CleanupRoot(p)
        \/ Diagnose(p)
        \/ ToFile(p)
        \/ AddFilepath(p)
        \/ CreateQiimeMappingFile(p)

ConcurrentCreateSpec == ConcurrentInit /\ [][ConcurrentCreateNext]_vars

---------------------------------------------------------------------------
(* Properties of PrepTemplate.create *)

\* The four groups of statements create() queues for call c, as found in
\* store d: every one of them, or not one.
AllQueuedCommitted(d, c) ==
    /\ get_sample_ids(d, c.id) = Range(c.index)
    /\ registry_columns(d, c.id) = c.columns \ db_cols
    /\ c.id \in DOMAIN d.tables
    /\ d.tables[c.id].columns = c.columns \ db_cols
    /\ d.tables[c.id].rows = Range(c.index)

NoQueuedCommitted(d, c) ==
    /\ get_sample_ids(d, c.id) = {}
    /\ registry_columns(d, c.id) = {}
    /\ c.id \notin DOMAIN d.tables

\* C1: once execute_queue has run, whichever statement failed if one did,
\* the required rows, the registry rows, the dynamic table and its rows of
\* the new template are all in the store or none of them is.
C1_QueueIsAtomic ==
    \A p \in Callers :
        pc[p] \in {"to_file", "cleanup"} =>
            \/ AllQueuedCommitted(db, call[p])
            \/ NoQueuedCommitted(db, call[p])

\* A two-row template whose queue failed on a statement after the first:
\* nothing of it is in the store.
C1_Witness ==
    \E p \in Callers :
        /\ pc[p] = "cleanup"
        /\ call[p].error > 1
        /\ Len(call[p].index) = 2
        /\ NoQueuedCommitted(db, call[p])

\* The columns an input has to have for its data type, and the columns it
\* offers once lower-cased and, for a target-gene type, renamed.
RequiredColumns(data_type) ==
    db_cols \cup (IF data_type \in TARGET_GENE_DATA_TYPES
                  THEN REQUIRED_TARGET_GENE_COLS ELSE {})

OfferedColumns(columns, data_type) ==
    LET lowered == {ToLower(c) : c \in Range(columns)}
    IN  IF data_type \in TARGET_GENE_DATA_TYPES
        THEN lowered \cup {RENAME_COLS_DICT[c] : c \in lowered \cap DOMAIN RENAME_COLS_DICT}
        ELSE lowered

LacksRequiredColumn(columns, data_type) ==
    RequiredColumns(data_type) \ OfferedColumns(columns, data_type) # {}

\* The checks create() makes before it looks for missing columns.
PassesEarlierChecks(index, columns, investigation_type) ==
    /\ investigation_type = None \/ investigation_type \in ontology_terms
    /\ \A n \in Range(index) : \A i \in DOMAIN n : n[i] \in letters \cup digits \cup {"."}
    /\ \A i, j \in DOMAIN columns : ToLower(columns[i]) = ToLower(columns[j]) => i = j

\* The inputs of the model that lack a required column, and those of them
\* that pass the earlier checks.
InputsLackingAColumn ==
    {in \in InputIndexes \X InputColumns \X InputDataTypes \X InputInvestigationTypes :
        LacksRequiredColumn(in[2], in[3])}

InputsLackingOnlyAColumn ==
    {in \in InputsLackingAColumn : PassesEarlierChecks(in[1], in[2], in[4])}

\* A step of p that is create() raising an error of the given kinds.
CreateRaises(p, kinds) ==
    /\ pc[p] \in {"idle", "done"}
    /\ pc'[p] = "done"
    /\ call'[p].op = "create"
    /\ result'[p].kind \in kinds
    /\ pipeline' = pipeline

\* Whenever create() raises the missing-columns error, it has written nothing.
MissingColumnsErrorWritesNothing ==
    [][\A p \in Callers :
        CreateRaises(p, {"MissingColumnsError"}) =>
            /\ result'[p].columns # {}
            /\ db' = db
            /\ fs' = fs]_vars

\* C2 as stated: every input that lacks a required column makes create()
\* fail with the missing-columns error and write nothing.
C2_AsStated ==
    /\ \A in \in InputsLackingAColumn :
          create_checks(in[1], in[2], in[3], in[4]).kind = "MissingColumnsError"
    /\ MissingColumnsErrorWritesNothing

\* C2, amended: every input that passes the earlier checks of create() (the
\* investigation type, the characters of the sample ids, the duplicate
\* headers) and lacks a required column makes create() fail with the
\* missing-columns error, naming the columns it lacks, and write nothing: no
\* prep_template row, no required rows, no registry rows, no dynamic table.
C2_MissingColumnsWriteNothing ==
    /\ \A in \in InputsLackingOnlyAColumn :
          LET error == create_checks(in[1], in[2], in[3], in[4])
          IN  /\ error.kind = "MissingColumnsError"
              /\ error.columns = RequiredColumns(in[3]) \ OfferedColumns(in[2], in[3])
    /\ MissingColumnsErrorWritesNothing

\* A create() that ended with the missing-columns error, no id drawn.
C2_Witness ==
    \E p \in Callers :
        /\ pc[p] = "done"
        /\ call[p].op = "create"
        /\ result[p].kind = "MissingColumnsError"
        /\ "center_name" \in result[p].columns
        /\ db.prep_template_id_seq = 1

\* C3: when create() has returned, the dynamic table exists, the registry
\* rows of the id name exactly the columns of the table other than
\* sample_id, and the template has as many samples as the input had rows.
C3_SuccessfulCreate ==
    \A p \in Callers :
        (call[p].op = "create" /\ pc[p] = "done" /\ result[p].kind = "ok") =>
            /\ call[p].id \in DOMAIN db.tables
            /\ registry_columns(db, call[p].id) = db.tables[call[p].id].columns
            /\ len(db, call[p].id) = call[p].rows

\* A create() of a two-row template that returned.
C3_Witness ==
    \E p \in Callers :
        /\ call[p].op = "create" /\ pc[p] = "done" /\ result[p].kind = "ok"
        /\ call[p].rows = 2
        /\ registry_columns(db, call[p].id) # {}

FailedInExecution(p) ==
    /\ call[p].op = "create"
    /\ pc[p] = "done"
    /\ result[p].kind \in {"OrphanSamplesError", "ExecutionError"}

\* C4: when the atomic execution has failed and create() has raised, the
\* store holds neither the prep_template row nor the dynamic table of the
\* new id.
C4_FailedCreateLeavesNoRoot ==
    \A p \in Callers :
        FailedInExecution(p) =>
            /\ call[p].id \notin DOMAIN db.prep_template
            /\ call[p].id \notin DOMAIN db.tables

\* A create() that drew an id and raised after the execution failed.
C4_Witness ==
    \E p \in Callers :
        /\ FailedInExecution(p)
        /\ call[p].id >= 1
        /\ db.prep_template_id_seq > call[p].id

\* C5: the error raised after a failed execution is the orphan-samples
\* error naming exactly the prefixed sample ids of the new template that the
\* study has not registered, when there are any, and otherwise the error
\* execute_queue raised, unchanged.
C5_ErrorAfterFailedExecution ==
    [][\A p \in Callers :
        (pc[p] = "diagnose" /\ pc'[p] = "done") =>
            LET orphans == {n \in Range(call[p].index) :
                                n \notin db.required_sample_info}
            IN  IF orphans # {}
                THEN result'[p] = Raised("OrphanSamplesError", orphans, {})
                ELSE /\ result'[p] = ExecutionError(call[p].error)
                     /\ call[p].error >= 1]_vars

\* A create() that raised the orphan-samples error naming the one sample id
\* the study does not know.
C5_Witness ==
    \E p \in Callers :
        /\ pc[p] = "done"
        /\ result[p].kind = "OrphanSamplesError"
        /\ result[p].samples = {<<"1", ".", "C">>}
        /\ call[p].id \notin DOMAIN db.prep_template

\* C6 as stated: no state shows the prep_template row of an id without the
\* dynamic table of that id.
C6_AsStated ==
    \A id \in DOMAIN db.prep_template : id \in DOMAIN db.tables

\* C6, amended: create() commits the prep_template row by a statement of its
\* own, before the queue runs, and the CREATE TABLE with the queued
\* statements; so a row may be seen without its table, but no state shows
\* the dynamic table of an id without the prep_template row of that id.
C6_TableImpliesRoot ==
    \A id \in DOMAIN db.tables : id \in DOMAIN db.prep_template

\* The queue of a create() has committed: table and row are both there.
C6_Witness ==
    \E p \in Callers :
        /\ pc[p] = "to_file"
        /\ call[p].id \in DOMAIN db.tables
        /\ call[p].id \in DOMAIN db.prep_template

---------------------------------------------------------------------------
(* Properties of PrepTemplate.delete *)

\* C7: in every state the registry rows of an id exist only if its dynamic
\* table exists, and they name exactly the columns of that table.
C7_RegistryMatchesTable ==
    \A id \in PrepIds :
        /\ registry_columns(db, id) # {} => id \in DOMAIN db.tables
        /\ id \in DOMAIN db.tables =>
                registry_columns(db, id) = db.tables[id].columns

\* C8: delete(id) on an id whose dynamic table does not exist ends with the
\* unknown-template error, and nothing in the store or on disk has changed.
C8_DeleteUnknown ==
    [][\A p \in Callers, id \in PrepIds :
        (DeleteStart(p, id) /\ id \notin DOMAIN db.tables) =>
            /\ pc'[p] = "done"
            /\ result'[p].kind = "UnknownTemplateError"
            /\ db' = db
            /\ fs' = fs]_vars

\* A delete that ended with the unknown-template error on an id whose
\* prep_template row is still in the store.
C8_Witness ==
    \E p \in Callers :
        /\ call[p].op = "delete" /\ pc[p] = "done"
        /\ result[p].kind = "UnknownTemplateError"
        /\ call[p].id \in DOMAIN db.prep_template

DeleteReturned(p) ==
    call[p].op = "delete" /\ pc[p] = "done" /\ result[p].kind = "ok"

\* C9: when delete(id) has returned, the dynamic table of id does not exist,
\* and the next delete(id), no create in between, ends with the
\* unknown-template error.
C9_DeleteTwice ==
    /\ [](\A p \in Callers : DeleteReturned(p) => call[p].id \notin DOMAIN db.tables)
    /\ [][\A p \in Callers :
            (DeleteReturned(p) /\ DeleteStart(p, call[p].id)) =>
                /\ pc'[p] = "done"
                /\ result'[p].kind = "UnknownTemplateError"]_vars

\* A delete that ended with the unknown-template error on a template that
\* had been committed (its backup file is on disk) and deleted to the end.
C9_Witness ==
    \E p \in Callers :
        /\ call[p].op = "delete" /\ pc[p] = "done"
        /\ result[p].kind = "UnknownTemplateError"
        /\ <<"prep", call[p].id>> \in DOMAIN fs
        /\ call[p].id \notin DOMAIN db.prep_template
        /\ registry_columns(db, call[p].id) = {}

Linked(d, id) == \E r \in d.prep_template_preprocessed_data : r[1] = id

\* C10: delete(id) on a prep template with preprocessed data linked to it
\* ends with the state-conflict error and removes nothing.
C10_DeleteWithPreprocessedData ==
    [][\A p \in Callers :
        /\ \A id \in PrepIds :
            (DeleteStart(p, id) /\ id \in DOMAIN db.tables /\ Linked(db, id)) =>
                pc'[p] = "del_check" /\ db' = db /\ fs' = fs
        /\ (pc[p] = "del_check" /\ pc'[p] # "del_check" /\ Linked(db, call[p].id)) =>
                /\ pc'[p] = "done"
                /\ result'[p].kind = "StateConflictError"
                /\ db' = db
                /\ fs' = fs]_vars

\* A delete that ended with the state-conflict error; the template is whole.
C10_Witness ==
    \E p \in Callers :
        /\ call[p].op = "delete" /\ pc[p] = "done"
        /\ result[p].kind = "StateConflictError"
        /\ call[p].id \in DOMAIN db.tables
        /\ call[p].id \in DOMAIN db.prep_template
        /\ get_sample_ids(db, call[p].id) # {}

\* What delete(id) removes, as found in store d.
filepath_links(d, id) == {r \in d.prep_template_filepath : r[1] = id}

TemplateComplete(d, id) ==
    /\ id \in DOMAIN d.tables
    /\ registry_columns(d, id) # {}
    /\ get_sample_ids(d, id) # {}
    /\ id \in DOMAIN d.prep_template

\* C11: when a removal statement of delete(id) has failed, none of the
\* removals has taken effect: the table, the registry rows and the required
\* rows of the template are all still in the store.
C11_DeleteIsAtomic ==
    \A p \in Callers :
        (call[p].op = "delete" /\ pc[p] = "done" /\ result[p].kind = "StoreError")
            => TemplateComplete(db, call[p].id)

\* The removals of delete(id), each as the step that makes it.
LinksRemoved(id) == filepath_links(db, id) # {} /\ filepath_links(db', id) = {}

TableRemoved(id) == id \in DOMAIN db.tables /\ id \notin DOMAIN db'.tables

RequiredRemoved(id) == get_sample_ids(db, id) # {} /\ get_sample_ids(db', id) = {}

RegistryRemoved(id) ==
    registry_columns(db, id) # {} /\ registry_columns(db', id) = {}

RootRemoved(id) ==
    id \in DOMAIN db.prep_template /\ id \notin DOMAIN db'.prep_template

\* C12 as stated: delete(id) removes the dynamic table first, then the
\* registry rows, then the required rows, then the filepath links.
C12_AsStated ==
    [][\A p \in Callers :
        call[p].op = "delete" =>
            LET id == call[p].id
            IN  /\ TableRemoved(id) =>
                    /\ registry_columns(db, id) # {}
                    /\ get_sample_ids(db, id) # {}
                /\ RegistryRemoved(id) =>
                    /\ id \notin DOMAIN db.tables
                    /\ get_sample_ids(db, id) # {}
                /\ RequiredRemoved(id) =>
                    /\ id \notin DOMAIN db.tables
                    /\ registry_columns(db, id) = {}
                /\ LinksRemoved(id) =>
                    /\ id \notin DOMAIN db.tables
                    /\ registry_columns(db, id) = {}
                    /\ get_sample_ids(db, id) = {}]_vars

\* C12, amended: delete(id) removes the filepath links first, then the
\* dynamic table, then the required rows, then the registry rows, and the
\* prep_template row last: each removal finds the earlier ones done and the
\* later ones still to do.
C12_DeleteOrder ==
    [][\A p \in Callers :
        call[p].op = "delete" =>
            LET id == call[p].id
            IN  /\ LinksRemoved(id) => TemplateComplete(db, id)
                /\ TableRemoved(id) =>
                    /\ filepath_links(db, id) = {}
                    /\ get_sample_ids(db, id) # {}
                    /\ registry_columns(db, id) # {}
                    /\ id \in DOMAIN db.prep_template
                /\ RequiredRemoved(id) =>
                    /\ filepath_links(db, id) = {}
                    /\ id \notin DOMAIN db.tables
                    /\ registry_columns(db, id) # {}
                    /\ id \in DOMAIN db.prep_template
                /\ RegistryRemoved(id) =>
                    /\ filepath_links(db, id) = {}
                    /\ id \notin DOMAIN db.tables
                    /\ get_sample_ids(db, id) = {}
                    /\ id \in DOMAIN db.prep_template
                /\ RootRemoved(id) =>
                    /\ filepath_links(db, id) = {}
                    /\ id \notin DOMAIN db.tables
                    /\ get_sample_ids(db, id) = {}
                    /\ registry_columns(db, id) = {}]_vars

\* A delete of a template that had both of its files linked, with the links
\* gone, the table gone, and the registry rows and the root row still there.
C12_Witness ==
    \E p \in Callers :
        /\ call[p].op = "delete"
        /\ pc[p] = "del_columns"
        /\ <<"qiime", call[p].id>> \in DOMAIN fs
        /\ filepath_links(db, call[p].id) = {}
        /\ call[p].id \notin DOMAIN db.tables
        /\ get_sample_ids(db, call[p].id) = {}
        /\ registry_columns(db, call[p].id) # {}

---------------------------------------------------------------------------
(* Properties of the preprocessing pipeline *)

\* C13: in no state is preprocessed data linked to a prep template whose
\* dynamic table or whose prep_template row has been deleted.
C13_NoDanglingLink ==
    \A r \in db.prep_template_preprocessed_data :
        /\ r[1] \in DOMAIN db.tables
        /\ r[1] \in DOMAIN db.prep_template

status(d, id) == d.prep_template[id].preprocessing_status

\* the step belongs to the run in flight, it does not invoke a new one
SameRun == pipeline'.started = pipeline.started

\* C14: a run on a raw data whose filetype is neither FASTQ nor FASTA fails
\* with the unsupported-filetype error and mutates nothing: neither its
\* invocation nor the building of the graph changes the store.
C14_UnsupportedFiletypeMutatesNothing ==
    [][/\ \A id \in PrepIds, filetype \in InputFiletypes \ {"FASTQ", "FASTA"} :
            PipelineStart(id, filetype) => db' = db
       /\ (/\ pipeline.run.pc = "construct"
           /\ pipeline.run.filetype \notin {"FASTQ", "FASTA"}
           /\ pipeline' # pipeline)
          => /\ pipeline'.run.pc = "raised"
             /\ pipeline'.run.msg = "filetype not supported"
             /\ db' = db]_vars

\* C15: the step that ends a run, on whatever path, leaves the status of
\* its template success or failed:<message>, never preprocessing.
C15_RunEndsWithOutcome ==
    [][(/\ SameRun
        /\ pipeline.run.pc \notin RunOver
        /\ pipeline'.run.pc \in RunOver
        /\ pipeline.run.raw_data \in DOMAIN db'.prep_template)
       => status(db', pipeline.run.raw_data)
              \in {"success"} \cup {FailedStatus(m) : m \in Messages}]_vars

StatusEdges ==
    {<<"not_preprocessed", "preprocessing">>, <<"preprocessing", "success">>}
        \cup {<<"preprocessing", FailedStatus(m)>> : m \in Messages}

\* C16: every change of the preprocessing status of a template follows one
\* of the edges not_preprocessed -> preprocessing, preprocessing -> success,
\* preprocessing -> failed:<message>.
C16_StatusFollowsEdges ==
    [][\A id \in PrepIds :
        (/\ id \in DOMAIN db.prep_template
         /\ id \in DOMAIN db'.prep_template
         /\ status(db', id) # status(db, id))
        => <<status(db, id), status(db', id)>> \in StatusEdges]_vars

\* the messages a node fails with
NodeMessages(node) ==
    CASE node = "PREPROCESS" -> {"command"}
      [] node = "GEN_DEMUX_FILE" -> {"no demultiplexed fastq file"}
      [] node = "INSERT_PREPROCESSED" -> {"not all the expected files", "store"}
      [] OTHER -> {}

\* C17: when a node of the graph has failed, no further node is executed,
\* the failure callback is invoked once for the run and never for a run
\* without a failed node, it sets the status to failed: <message> with the
\* message of the failed node, and it appends one log record with the raw
\* data id and the message.
C17_NodeFailure ==
    /\ [](LET run == pipeline.run
          IN  /\ run.callbacks <= 1
              /\ run.pc = "callback" => run.callbacks = 0 /\ run.failed_node # None
              /\ run.pc = "ended" =>
                    run.callbacks = (IF run.failed_node # None THEN 1 ELSE 0)
              /\ run.failed_node # None =>
                    /\ run.executed[Len(run.executed)] = run.failed_node
                    /\ run.msg \in NodeMessages(run.failed_node))
    /\ [][LET run == pipeline.run
              id == run.raw_data
          IN  /\ (SameRun /\ run.failed_node # None) =>
                    pipeline'.run.executed = run.executed
              /\ (SameRun /\ pipeline'.run.callbacks # run.callbacks) =>
                    /\ log' = Append(log, [category |-> "Fatal", msg |-> run.msg,
                                           id |-> id])
                    /\ id \in DOMAIN db.prep_template =>
                          status(db', id) = FailedStatus(run.msg)]_vars

\* A run whose second node failed: two nodes executed, the callback called
\* once, the status and the log record with the message of that node.
C17_Witness ==
    LET run == pipeline.run
    IN  /\ run.pc = "ended"
        /\ run.failed_node = "GEN_DEMUX_FILE"
        /\ run.executed = <<"PREPROCESS", "GEN_DEMUX_FILE">>
        /\ run.callbacks = 1
        /\ run.raw_data \in DOMAIN db.prep_template
        /\ status(db, run.raw_data) = "failed: no demultiplexed fastq file"
        /\ Len(log) = 1
        /\ log[1].id = run.raw_data

\* C18: every working directory a run has created is scheduled for removal.
C18_DirectoriesScheduled ==
    pipeline.run.created \subseteq pipeline.run.dirpaths_to_remove

\* the nodes that can be reached from the set S along at most k edges
RECURSIVE ReachableFrom(_, _, _)
ReachableFrom(edges, S, k) ==
    IF k = 0 THEN S
    ELSE ReachableFrom(edges, S \cup {e[2] : e \in {x \in edges : x[1] \in S}},
                       k - 1)

Acyclic(nodes, edges) ==
    \A n \in nodes :
        n \notin ReachableFrom(edges, {e[2] : e \in {x \in edges : x[1] = n}},
                               Cardinality(nodes))

\* C19: the graph of a run has the nodes PREPROCESS, GEN_DEMUX_FILE and
\* INSERT_PREPROCESSED, the edges PREPROCESS -> GEN_DEMUX_FILE and
\* GEN_DEMUX_FILE -> INSERT_PREPROCESSED, no cycle, no node with
\* requires_deps set, and every node executed was started after all the
\* nodes it has an edge from had completed.
C19_LinearGraphInOrder ==
    LET run == pipeline.run
    IN  run.pc \in {"execute", "callback", "ended"} =>
            /\ run.nodes = {"PREPROCESS", "GEN_DEMUX_FILE", "INSERT_PREPROCESSED"}
            /\ run.edges = {<<"PREPROCESS", "GEN_DEMUX_FILE">>,
                            <<"GEN_DEMUX_FILE", "INSERT_PREPROCESSED">>}
            /\ Acyclic(run.nodes, run.edges)
            /\ run.requires_deps = {}
            /\ \A i \in DOMAIN run.executed :
                 \A e \in run.edges :
                    e[2] = run.executed[i] =>
                        /\ e[1] # run.failed_node
                        /\ \E j \in 1..(i - 1) : run.executed[j] = e[1]

\* A run that has executed its three nodes.
C19_Witness ==
    /\ pipeline.run.pc = "ended"
    /\ pipeline.run.executed =
          <<"PREPROCESS", "GEN_DEMUX_FILE", "INSERT_PREPROCESSED">>
    /\ pipeline.run.failed_node = None

links(d, id) == {r \in d.prep_template_preprocessed_data : r[1] = id}

\* the step of the run in flight that executes the insert node
InsertStep ==
    /\ SameRun
    /\ "INSERT_PREPROCESSED" \notin Range(pipeline.run.executed)
    /\ "INSERT_PREPROCESSED" \in Range(pipeline'.run.executed)

\* C20: a FASTQ run sets the status to preprocessing when it is invoked and
\* keeps it until a node ends the run.  If the four expected files exist at
\* the insert step (and the template is still in the store), the step
\* registers the preprocessed data and sets the status to success; if one of
\* them is absent, nothing is registered and the run ends with the status
\* failed: <message>, the message being that of the missing files.
C20_FastqEndToEnd ==
    /\ [](LET run == pipeline.run
          IN  (/\ run.filetype = "FASTQ"
               /\ run.pc \in {"construct", "execute", "callback"}
               /\ run.raw_data \in DOMAIN db.prep_template)
              => status(db, run.raw_data) = "preprocessing")
    /\ [][LET run == pipeline.run
              id == run.raw_data
          IN  /\ InsertStep =>
                    IF ExpectedFiles \subseteq run.files
                    THEN id \in DOMAIN db.prep_template =>
                            /\ status(db', id) = "success"
                            /\ links(db', id) = links(db, id) \cup {<<id, pipeline.started>>}
                            /\ <<id, pipeline.started>> \notin links(db, id)
                            /\ pipeline'.run.pc = "ended"
                    ELSE /\ db' = db
                         /\ pipeline'.run.pc = "callback"
                         /\ pipeline'.run.msg = "not all the expected files"
              /\ (/\ SameRun
                  /\ run.pc = "callback"
                  /\ run.msg = "not all the expected files"
                  /\ pipeline'.run.pc = "ended"
                  /\ id \in DOMAIN db.prep_template)
                 => /\ status(db', id) = "failed: not all the expected files"
                    /\ links(db', id) = links(db, id)]_vars

\* A run that found seqs.demux gone at its insert step: the status says so
\* and no preprocessed data is registered for the template.
C20_Witness ==
    LET run == pipeline.run
    IN  /\ run.pc = "ended"
        /\ run.filetype = "FASTQ"
        /\ run.files = ExpectedFiles \ {"seqs.demux"}
        /\ run.failed_node = "INSERT_PREPROCESSED"
        /\ run.raw_data \in DOMAIN db.prep_template
        /\ status(db, run.raw_data) = "failed: not all the expected files"
        /\ links(db, run.raw_data) = {}

---------------------------------------------------------------------------
(* Properties of the checks, the files and the log of a template *)

\* C21: prefixing the sample ids with the study id is idempotent: an id that
\* does not start with "<study_id>." becomes "<study_id>.<id>", an id that
\* carries the prefix is left as it is, prefixing twice gives what prefixing
\* once gives; the ids create() queues, and has stored once its queue has
\* committed, are the prefixed ones, which prefixing leaves unchanged.
C21_PrefixIdempotent ==
    /\ \A index \in InputIndexes :
          LET pre == study.id \o <<".">>
              once == prefix_sample_names_with_id(index, study.id)
          IN  /\ \A i \in DOMAIN index :
                    once[i] = IF HasPrefix(index[i], pre)
                              THEN index[i] ELSE pre \o index[i]
              /\ prefix_sample_names_with_id(once, study.id) = once
    /\ [](\A p \in Callers :
            /\ pc[p] \in {"execute_queue", "to_file"} =>
                    /\ \A n \in Range(call[p].index) :
                            HasPrefix(n, study.id \o <<".">>)
                    /\ prefix_sample_names_with_id(call[p].index, study.id)
                            = call[p].index
            /\ pc[p] = "to_file" =>
                    get_sample_ids(db, call[p].id) = Range(call[p].index))

\* A committed create() whose input had B, without the prefix, before 1.A,
\* with it: the ids stored are 1.B and 1.A.
C21_Witness ==
    \E p \in Callers :
        /\ pc[p] = "to_file"
        /\ call[p].index = << <<"1", ".", "B">>, <<"1", ".", "A">> >>
        /\ get_sample_ids(db, call[p].id)
              = { <<"1", ".", "A">>, <<"1", ".", "B">> }

\* the inputs create() is called with
CreateInputs ==
    InputIndexes \X InputColumns \X InputDataTypes \X InputInvestigationTypes

\* C22: create() rejects an input with a sample id that has a character
\* outside letters, digits and the period, and an input whose lower-cased
\* headers repeat: once the investigation type has passed, the error is the
\* invalid-sample-id error naming those ids, or else the duplicate-header
\* error naming the repeated headers; and the step that raises either error
\* writes nothing: no prep_template row, no id drawn, no file, no queue.
C22_RejectedBeforeAnyWrite ==
    /\ \A in \in CreateInputs :
          LET error == create_checks(in[1], in[2], in[3], in[4])
              type_ok == in[4] = None \/ in[4] \in ontology_terms
              invalid == {n \in Range(in[1]) :
                            \E i \in DOMAIN n : n[i] \notin letters \cup digits \cup {"."}}
              repeated == {ToLower(in[2][i]) : i \in
                            {k \in DOMAIN in[2] :
                                \E j \in DOMAIN in[2] :
                                    j # k /\ ToLower(in[2][j]) = ToLower(in[2][k])}}
          IN  /\ (invalid # {} \/ repeated # {}) => error.kind # "none"
              /\ (type_ok /\ invalid # {}) =>
                    error = Raised("InvalidSampleIdError", invalid, {})
              /\ (type_ok /\ invalid = {} /\ repeated # {}) =>
                    error = Raised("DuplicateHeaderError", {}, repeated)
    /\ [][\A p \in Callers :
            CreateRaises(p, {"InvalidSampleIdError", "DuplicateHeaderError"}) =>
                /\ db' = db
                /\ fs' = fs
                /\ queues'[p] = <<>>
                /\ call'[p].id = 0]_vars

\* A create() that ended with the duplicate-header error for PH and Ph on a
\* store that has never held a template.
C22_Witness ==
    \E p \in Callers :
        /\ pc[p] = "done"
        /\ call[p].op = "create"
        /\ result[p] = Raised("DuplicateHeaderError", {}, {"ph"})
        /\ db.prep_template_id_seq = 1
        /\ db.prep_template = <<>>

\* a step of p that is the investigation_type setter ending
SetterEnds(p) ==
    /\ pc[p] \in {"idle", "done"}
    /\ pc'[p] = "done"
    /\ call'[p].op = "investigation_type"

\* C23: an investigation type that is not a term of the ontology is
\* rejected with the invalid-investigation-type error listing the terms: by
\* create(), which then writes nothing, and by the setter, which leaves the
\* stored value as it was; a term of the ontology handed to the setter is
\* stored as supplied and read back verbatim, and the prep_template row a
\* create() inserts carries the term the create() was given.
C23_InvestigationTypeValidated ==
    /\ \A in \in CreateInputs :
          (in[4] # None /\ in[4] \notin ontology_terms) =>
              LET error == create_checks(in[1], in[2], in[3], in[4])
              IN  /\ error.kind = "InvalidInvestigationTypeError"
                  /\ error.terms = ontology_terms
    /\ [](\A p \in Callers :
            (call[p].op = "investigation_type" /\ result[p].kind = "ok") =>
                /\ call[p].value \in ontology_terms \cup {None}
                /\ investigation_type_of(db, call[p].id) = call[p].value)
    /\ [][\A p \in Callers :
            /\ CreateRaises(p, {"InvalidInvestigationTypeError"}) =>
                    /\ result'[p].terms = ontology_terms
                    /\ db' = db
                    /\ fs' = fs
                    /\ queues'[p] = <<>>
            /\ (SetterEnds(p) /\ call'[p].value \notin ontology_terms \cup {None}) =>
                    /\ result'[p] = InvalidInvestigationTypeError
                    /\ db' = db
            /\ (SetterEnds(p) /\ call'[p].value \in ontology_terms) =>
                    /\ result'[p].kind = "ok"
                    /\ investigation_type_of(db', call'[p].id) = call'[p].value
            /\ \A investigation_type \in ontology_terms :
                  (/\ pc[p] \in {"idle", "done"}
                   /\ pc'[p] = "execute_queue"
                   /\ db'.prep_template[call'[p].id].investigation_type
                         = investigation_type)
                  => CreateStart(p, PipelineIndex, PipelineColumns, "16S",
                                 investigation_type)]_vars

\* The setter has stored Metagenomics on a template, and a later call of it
\* with a value that is no term has ended with the error: the stored value
\* is still Metagenomics.
C23_Witness ==
    \E p \in Callers :
        /\ call[p].op = "investigation_type"
        /\ call[p].value = "Other"
        /\ result[p] = InvalidInvestigationTypeError
        /\ call[p].id \in DOMAIN db.prep_template
        /\ investigation_type_of(db, call[p].id) = "Metagenomics"

\* the headers of the inputs, lower-cased as create() hands them on
LoweredInputColumns == {LowerColumns(columns) : columns \in InputColumns}

\* C24: for a data type among 16S, 18S and ITS the special-column check
\* renames barcode to barcodesequence and primer to linkerprimersequence and
\* returns exactly the required target-gene columns that the renamed headers
\* lack; for any other data type it renames nothing and returns the empty
\* set.  The columns of a template that create() goes on to queue are the
\* columns the check has left for an input it found nothing missing in.
C24_SpecialColumns ==
    /\ \A columns \in LoweredInputColumns,
          data_type \in {"16S", "18S", "ITS"} \cup InputDataTypes :
          LET checked == check_template_special_columns(columns, data_type)
              renamed == [i \in DOMAIN columns |->
                            CASE columns[i] = "barcode" -> "barcodesequence"
                              [] columns[i] = "primer" -> "linkerprimersequence"
                              [] OTHER -> columns[i]]
          IN  IF data_type \in {"16S", "18S", "ITS"}
              THEN /\ checked.columns = renamed
                   /\ checked.missing =
                        {"barcodesequence", "linkerprimersequence", "run_prefix",
                         "library_construction_protocol",
                         "experiment_design_description", "platform"}
                            \ Range(renamed)
              ELSE /\ checked.columns = columns
                   /\ checked.missing = {}
    /\ [][\A p \in Callers :
            (pc[p] \in {"idle", "done"} /\ pc'[p] = "execute_queue") =>
                \E columns \in LoweredInputColumns, data_type \in InputDataTypes :
                    LET checked == check_template_special_columns(columns, data_type)
                    IN  /\ checked.missing = {}
                        /\ call'[p].columns = Range(checked.columns)]_vars

\* A create() has queued the statements of a template whose columns are
\* center_name and the six target-gene columns and no other: its headers
\* were Barcode and primer, its data type 16S, and the check has renamed them.
C24_Witness ==
    \E p \in Callers :
        /\ pc[p] = "execute_queue"
        /\ call[p].op = "create"
        /\ call[p].columns = {"center_name"} \cup REQUIRED_TARGET_GENE_COLS

\* the step of p that ends a create_qiime_mapping_file, and the file it
\* was given: the backup inside create(), the argument of a call on its own
MappingFileEnds(p) ==
    /\ pc'[p] = "done"
    /\ \/ pc[p] = "qiime"
       \/ pc[p] \in {"idle", "done"} /\ call'[p].op = "create_qiime_mapping_file"

MappingFileInput(p) ==
    IF pc[p] = "qiime" THEN <<"prep", call[p].id>> ELSE call'[p].value

\* the sample ids of the latest file of the study's sample template
st_sample_names ==
    fs[get_filepaths(db, db.sample_template_filepath, study.id)[1][2]].index

\* C25: whenever the sample ids of the prep template file are not a subset
\* of the sample ids of the sample template file, create_qiime_mapping_file
\* ends with the not-a-subset error naming exactly the ids the sample
\* template lacks, no mapping file is written and no filepath row or link is
\* added.
C25_NotASubset ==
    [][\A p \in Callers :
        MappingFileEnds(p) =>
            LET pt_sample_names == fs[MappingFileInput(p)].index
            IN  /\ ~(pt_sample_names \subseteq st_sample_names) =>
                    /\ result'[p] = Raised("NotASubsetError",
                                           pt_sample_names \ st_sample_names, {})
                    /\ fs' = fs
                    /\ db' = db
                /\ result'[p].kind = "NotASubsetError" =>
                    ~(pt_sample_names \subseteq st_sample_names)]_vars

\* A call on a committed template with the uploaded file, which names 1.C:
\* the error names 1.C, and the only mapping file and the only links of the
\* template are the ones its create() has made.
C25_Witness ==
    \E p \in Callers :
        /\ pc[p] = "done"
        /\ call[p].op = "create_qiime_mapping_file"
        /\ call[p].value = <<"upload", 1>>
        /\ result[p] = Raised("NotASubsetError", { <<"1", ".", "C">> }, {})
        /\ Cardinality(filepath_links(db, call[p].id)) = 2
        /\ fs[<<"qiime", call[p].id>>].index
              = { <<"1", ".", "A">>, <<"1", ".", "B">> }

\* the files and the filepath links create() makes for the template id
SideEffects(f, d, id) ==
    [files |-> {x \in DOMAIN f : x \in {<<"prep", id>>, <<"qiime", id>>}},
     links |-> filepath_links(d, id)]

NoSideEffects == [files |-> {}, links |-> {}]

\* C26: create() writes the backup file, registers its filepath link and
\* derives the mapping file only after its queue has committed: it is at
\* one of those steps only with all its statements in the store, a step
\* that changes the files or the links of a template finds it committed,
\* and when the execution has failed no file of the template is on disk and
\* no filepath link of it is in the store.
C26_SideEffectsAfterCommit ==
    /\ [](\A p \in Callers :
            /\ pc[p] \in {"to_file", "add_filepath", "qiime"} =>
                    AllQueuedCommitted(db, call[p])
            /\ (pc[p] \in {"cleanup", "diagnose"} \/ FailedInExecution(p)) =>
                    SideEffects(fs, db, call[p].id) = NoSideEffects)
    /\ [][\A id \in PrepIds :
            SideEffects(fs', db', id) # SideEffects(fs, db, id) =>
                /\ id \in DOMAIN db.tables
                /\ get_sample_ids(db, id) # {}
                /\ registry_columns(db, id) = db.tables[id].columns]_vars

\* A create() whose queue failed on its last statement has raised: the id
\* was drawn, and there is no backup, no mapping file and no link of it.
C26_Witness ==
    \E p \in Callers :
        /\ FailedInExecution(p)
        /\ result[p] = ExecutionError(4)
        /\ call[p].id = 1
        /\ SideEffects(fs, db, 1) = NoSideEffects

\* PrepTemplate(id).get_filepaths() on store d
prep_filepaths(d, id) == get_filepaths(d, d.prep_template_filepath, id)

\* C27: get_filepaths returns the filepath links of a template newest
\* first: every step that adds a link puts its path, under a filepath id
\* above all the earlier ones, in front of what get_filepaths returned
\* before, which follows unchanged; so the first element is the path added
\* last and the last element the path added first, the backup of create().
C27_NewestFirst ==
    /\ [](\A id \in PrepIds :
            LET fps == prep_filepaths(db, id)
            IN  /\ \A i, j \in DOMAIN fps : i < j => fps[i][1] > fps[j][1]
                /\ fps # <<>> => fps[Len(fps)][2] = <<"prep", id>>)
    /\ [][\A id \in PrepIds :
            filepath_links(db', id) \ filepath_links(db, id) # {} =>
                LET new == prep_filepaths(db', id)
                IN  /\ Tail(new) = prep_filepaths(db, id)
                    /\ new[1][1] = Len(db'.filepath)
                    /\ \A p \in Callers :
                          call'[p].op = "add_filepath" =>
                              new[1][2] = call'[p].value]_vars

\* add_filepath has been called with the sample template file on a template
\* after its create(): the file comes first, then the mapping file, then
\* the backup.
C27_Witness ==
    \E p \in Callers :
        /\ call[p].op = "add_filepath"
        /\ result[p].kind = "ok"
        /\ LET fps == prep_filepaths(db, call[p].id)
           IN  /\ Len(fps) = 3
               /\ fps[1][2] = <<"sample", 1>>
               /\ fps[2][2] = <<"qiime", call[p].id>>
               /\ fps[3][2] = <<"prep", call[p].id>>

C29_RoundTrip ==
    \A p \in Callers :
        (call[p].op = "create" /\ pc[p] \in {"add_filepath", "qiime"}) =>
            LET id == call[p].id
                parsed == load_template_to_dataframe(fs[<<"prep", id>>])
            IN  /\ parsed.index = get_sample_ids(db, id)
                /\ \A h \in template_columns(db, id) :
                      /\ h \in parsed.columns
                      /\ str(parsed.values[h]) = str(md_template_value(h))

\* C30: every runtime error caught during create() (a failed execution of
\* the queue, a failed registration of a filepath) or during a run of the
\* pipeline has a record in the log, with its category and the id it is
\* about, by the time the error has been raised or recorded.
C30_CaughtErrorsLogged ==
    /\ [](\A p \in Callers :
            FailedInExecution(p) =>
                \E i \in DOMAIN log :
                    /\ log[i].id = call[p].id
                    /\ log[i].category \in {"Runtime", "Fatal"})
    /\ []((pipeline.run.pc = "ended" /\ pipeline.run.failed_node # None) =>
            \E i \in DOMAIN log :
                log[i] = [category |-> "Fatal", msg |-> pipeline.run.msg,
                          id |-> pipeline.run.raw_data])
    /\ [][\A p \in Callers :
            (/\ call[p].op = "create"
             /\ pc[p] \in {"add_filepath", "qiime"}
             /\ result'[p].kind = "StoreError")
            => log' = Append(log, LogRuntime(call[p].id))]_vars

---------------------------------------------------------------------------
(* Properties of strains and of the commands on sample templates *)

\* the strain rows of store d that carry the unofficial name
strain_rows(d, unofficial_name) ==
    {i \in DOMAIN d.strain : d.strain[i].unofficial_name = unofficial_name}

\* a step of p that is the first of a call of op
StrainCallStarts(p, op) ==
    /\ pc[p] \in {"idle", "done"}
    /\ call'[p].op = op
    /\ <<pc[p], call[p], result[p]>> # <<pc'[p], call'[p], result'[p]>>

\* a step of p that is the check of a Strain.create on a stored name
StrainCreateOfStoredName(p) ==
    /\ StrainCallStarts(p, "Strain.create")
    /\ strain_rows(db, call'[p].value) # {}

\* C31: Strain.create with an unofficial name that a stored strain row
\* carries ends at its check with the duplicate error and inserts no strain
\* row and no filepath; Strain.exists(name) returns true exactly when a
\* strain row with the name is stored, and a Strain.create that passed its
\* check got there on a name no row carried.
C31_DuplicateStrain ==
    [][\A p \in ConcurrentCallers :
        /\ StrainCreateOfStoredName(p) =>
              /\ pc'[p] = "done"
              /\ result'[p] = Raised("DuplicateError", {}, {})
              /\ db' = db
        /\ (pc[p] \in {"idle", "done"} /\ pc'[p] = "strain_insert") =>
              strain_rows(db, call'[p].value) = {}
        /\ StrainCallStarts(p, "Strain.exists") =>
              /\ result'[p].kind = "ok"
              /\ result'[p].value =
                    (IF strain_rows(db, call'[p].value) # {}
                     THEN "True" ELSE "False")
              /\ db' = db]_vars

\* A Strain.create of a name has returned its strain, and a later
\* Strain.create of the same name by the other caller has ended with the
\* duplicate error: one row carries the name, one filepath is the strain's.
C31_Witness ==
    \E p, q \in ConcurrentCallers :
        /\ p # q
        /\ call[p].op = "Strain.create" /\ result[p].kind = "ok"
        /\ call[q].op = "Strain.create" /\ call[q].value = call[p].value
        /\ result[q].kind = "DuplicateError"
        /\ Cardinality(strain_rows(db, call[p].value)) = 1
        /\ Len(db.strain) = 1
        /\ Len(db.filepath) = 2

\* C32: SampleTemplateAdder.run with clear=True removes the old sample
\* template only when the study has one: on a study without a sample
\* template the run goes on to create the new one, so it never ends with the
\* error MetadataTemplate.delete raises for a template that does not exist.
C32_ClearWithoutTemplate ==
    \A p \in Callers :
        (InAdderRun(p) /\ pc[p] = "done" /\ call[p].value.clear) =>
            result[p].kind # "UnknownTemplateError"

\* the place of a statement in the order of a bulk load
StatementRank(s) ==
    CASE s.table = "common_prep_info" -> 1
      [] s.table = "prep_columns" -> 2
      [] s.table = "prep_" /\ s.sql = "CREATE TABLE" -> 3
      [] s.table = "prep_" /\ s.sql = "INSERT" -> 4

\* The working copy w of the transaction that runs queue q on store d holds
\* what the statements before statement k do, and nothing of statement k or
\* of a later one.
ExecutedBefore(w, d, q, id, k) ==
    /\ get_sample_ids(w, id) =
          (IF k > 1 THEN Range(q[1].samples) ELSE {}) \cup get_sample_ids(d, id)
    /\ registry_columns(w, id) =
          (IF k > 2 THEN q[2].columns ELSE {}) \cup registry_columns(d, id)
    /\ (k > 3) <=> (id \in DOMAIN w.tables)
    /\ (k > 3) => w.tables[id].rows = {}

\* C33: the statements of one bulk load are queued and executed in a fixed
\* order: the required-column rows, the registry rows, the CREATE TABLE of
\* the dynamic table, the rows of the dynamic table; whichever statement the
\* execution stops at, the statements before it have run and no later one
\* has, so no row is inserted into the dynamic table before its CREATE TABLE.
C33_StatementOrder ==
    \A p \in Callers :
        pc[p] = "execute_queue" =>
            LET q == queues[p][queue_name]
                id == call[p].id
            IN  /\ [i \in DOMAIN q |-> StatementRank(q[i])] = <<1, 2, 3, 4>>
                /\ \A k \in DOMAIN q :
                      LET run == RunStatements(db, q, 1, k)
                      IN  /\ ~run.ok
                          /\ run.failed <= k
                          /\ ExecutedBefore(run.db, db, q, id, run.failed)
                /\ LET run == RunStatements(db, q, 1, 0)
                   IN  run.ok =>
                          /\ id \in DOMAIN run.db.tables
                          /\ run.db.tables[id].rows = Range(call[p].index)

\* A create() has committed its statements: the dynamic table is there with
\* a row for each of the two samples handed in.
C33_Witness ==
    \E p \in Callers :
        /\ call[p].op = "create"
        /\ pc[p] = "to_file"
        /\ call[p].id \in DOMAIN db.tables
        /\ Cardinality(db.tables[call[p].id].rows) = 2
        /\ db.tables[call[p].id].rows = get_sample_ids(db, call[p].id)

\* the values the preprocessing status of a template may have
KnownStatus(state) ==
    \/ state \in {"not_preprocessed", "preprocessing", "success"}
    \/ (Len(state) >= 7 /\ SubSeq(state, 1, 7) = "failed:")

\* a step of p, and not of a run of the pipeline, that is the
\* preprocessing_status setter ending
StatusSetterEnds(p) ==
    /\ pc[p] \in {"idle", "done"}
    /\ pc'[p] = "done"
    /\ call'[p].op = "preprocessing_status"
    /\ pipeline' = pipeline

BecomesSuccess(id) ==
    /\ id \in DOMAIN db'.prep_template
    /\ status(db', id) = "success"
    /\ id \in DOMAIN db.prep_template => status(db, id) # "success"

\* the step is the insert node of the run in flight failing
InsertFails ==
    /\ SameRun
    /\ pipeline.run.failed_node = None
    /\ pipeline'.run.failed_node = "INSERT_PREPROCESSED"

NoTrace(d, id) ==
    /\ id \notin DOMAIN d.prep_template
    /\ get_sample_ids(d, id) = {}
    /\ registry_columns(d, id) = {}
    /\ id \notin DOMAIN d.tables

\* C36: when create() has ended by raising after it had inserted the root
\* row of a new template (in the atomic execution, or in the backup and
\* mapping-file steps after the commit), the store holds no trace of that
\* template: no prep_template row, no required rows, no registry rows and
\* no dynamic table.
C36_RaisedCreateLeavesNoTrace ==
    \A p \in Callers :
        (/\ call[p].op = "create"
         /\ pc[p] = "done"
         /\ result[p].kind \notin {"none", "ok"}
         /\ call[p].id # 0)
        => NoTrace(db, call[p].id)

Committed(d, id) ==
    <<get_sample_ids(d, id), registry_columns(d, id),
      IF id \in DOMAIN d.tables THEN <<d.tables[id]>> ELSE <<>> >>

\* p is inside a create() that has drawn the id of its template
InCreate(p) ==
    /\ call[p].op = "create"
    /\ pc[p] \in {"execute_queue", "cleanup", "diagnose", "to_file",
                  "add_filepath", "qiime"}

C39_UniqueStrainNames ==
    /\ \A i, j \in DOMAIN db.strain :
          db.strain[i].unofficial_name = db.strain[j].unofficial_name => i = j
    /\ \A p \in ConcurrentCallers :
          (call[p].op = "Strain.create" /\ pc[p] = "done") =>
              result[p].kind \in {"ok", "DuplicateError"}

\* C40: SampleTemplateAdder.run with clear=True never loses the sample
\* template of the study.  When the run ends with the new template not
\* created, the study still has the sample template it had.
C40_ReplacementIsAllOrNothing ==
    \A p \in Callers :
        (/\ InAdderRun(p)
         /\ pc[p] = "done"
         /\ call[p].value.clear
         /\ result[p].kind \notin {"ok", "UnknownTemplateError"})
        => sample_exists(db, call[p].id)

====
